---- MODULE Spec2Model ----
(***************************************************************************)
(* Model of the chunking engine (src/src/preprocessing/chunker.py) and of  *)
(* the FAISS-backed vector index (src/src/storage/storage.py).             *)
(*                                                                         *)
(* A text is a sequence of characters, a character is a one-character      *)
(* string.  Python indices are 0-based and half open, TLA+ sequences are   *)
(* 1-based: PySlice does the translation.                                  *)
(***************************************************************************)
EXTENDS Integers, Sequences, FiniteSets, TLC

VARIABLES
    \* ---- chunking engine ----
    phase,          \* "new" | "ready" | "rejected" | "chunked"
    config,         \* the ChunkingConfig held by the chunker (self.config)
    strategy,       \* which chunker class ran: "fixed" | "sentence" | "semantic"
    text,           \* argument of the last chunk() call
    document_id,    \* argument of the last chunk() call
    chunks,         \* the list returned by the last chunk() call
    \* ---- vector index (FAISSStorage) ----
    index,                  \* self.index: the vectors of the IndexFlatIP, in order
    index_d,                \* self.index.d: the dimension the IndexFlatIP was built with
    metadata_store,         \* self.metadata_store: faiss_id -> TextChunk
    chunk_id_to_faiss_id,   \* self.chunk_id_to_faiss_id: chunk_id -> faiss_id
    next_id,                \* self.next_id
    dimension,              \* self.dimension
    normalize_vectors,      \* self.normalize_vectors
    disk_faiss,             \* the "<path>.faiss" artifact, NoFile when absent
    disk_pkl,               \* the "<path>.pkl" artifact, NoFile when absent
    last_op,                \* the last index operation, its argument (for clear:
                            \* how many vectors it discarded) and its outcome
    saved,                  \* history: the object that wrote the artifacts, as it was then
    faiss_ties,             \* the order in which this build of faiss lists equal distances
    threads                 \* per calling thread: the statement it is at in add(), search(),
                            \* clear(), save() or load(), and that call's local variables

chunk_vars == <<phase, config, strategy, text, document_id, chunks>>
store_vars == <<index, index_d, metadata_store, chunk_id_to_faiss_id, next_id, dimension,
               normalize_vectors>>
disk_vars  == <<disk_faiss, disk_pkl>>
hist_vars  == <<saved>>
thread_vars == <<threads>>
vars == <<chunk_vars, store_vars, disk_vars, last_op, hist_vars, faiss_ties, thread_vars>>

(***************************************************************************)
(* Bounds of the model.                                                    *)
(***************************************************************************)
MaxLen     == 5     \* longest text given to the fixed and sentence chunkers
MaxParaLen == 7     \* longest text given to the paragraph chunker
MaxSize    == 2     \* largest chunk_size / chunk_overlap / min_chunk_size tried
MaxVectors == 3     \* the index is not grown beyond this many vectors
MaxBatch   == 2     \* longest list given to one add()
Dim        == 2     \* dimension of the vectors (384 in production)
MaxOverlapLen  == 10    \* longest text of the runs that look at the sentence overlap
MaxOverlapSize == 5     \* largest chunk_size of those runs

(***************************************************************************)
(* Characters.                                                             *)
(***************************************************************************)
Whitespace == {" ", "\n"}           \* what str.strip(), str.split() and \s see
Terminals  == {".", "!", "?", "U+2026"}     \* the class [.!?U+2026] of SENTENCE_ENDINGS
Alphabet     == {"a", ".", " ", "\n"}
ParaAlphabet == {"a", ".", "\n"}

IsSpace(c)    == c \in Whitespace
IsTerminal(c) == c \in Terminals

Min2(a, b) == IF a <= b THEN a ELSE b
Max2(a, b) == IF a >= b THEN a ELSE b
SetMin(S) == CHOOSE x \in S : \A y \in S : x <= y
SetMax(S) == CHOOSE x \in S : \A y \in S : x >= y

\* All sequences over S of length 0..n.
SeqsUpTo(S, n) == UNION {[1..k -> S] : k \in 0..n}

\* Python s[a:b] (negative indices count from the end, both are clamped).
PyIndex(i, n) == IF i < 0 THEN Max2(i + n, 0) ELSE Min2(i, n)
PySlice(s, a, b) ==
    LET lo == PyIndex(a, Len(s))
        hi == PyIndex(b, Len(s))
    IN  IF lo >= hi THEN <<>> ELSE SubSeq(s, lo + 1, hi)

\* Python s.strip(): drop leading and trailing whitespace.
Strip(s) ==
    LET keep == {i \in 1..Len(s) : ~IsSpace(s[i])}
    IN  IF keep = {} THEN <<>> ELSE SubSeq(s, SetMin(keep), SetMax(keep))

\* Python sep.join(parts)
RECURSIVE Join(_, _)
Join(sep, parts) ==
    IF parts = <<>> THEN <<>>
    ELSE IF Len(parts) = 1 THEN parts[1]
    ELSE parts[1] \o sep \o Join(sep, Tail(parts))

(***************************************************************************)
(* ChunkingConfig                                                          *)
(***************************************************************************)
NoConfig == [chunk_size |-> 0, chunk_overlap |-> 0, min_chunk_size |-> 0]

\* (mutant: the min_chunk_size check is missing)
ConfigRejected_NoMinCheck(chunk_size, chunk_overlap, min_chunk_size) ==
    chunk_overlap >= chunk_size

\* ChunkingConfig.__post_init__ raises ValueError
ConfigRejected(chunk_size, chunk_overlap, min_chunk_size) ==
    \/ chunk_overlap >= chunk_size
    \/ min_chunk_size > chunk_size

(***************************************************************************)
(* BaseChunker._create_chunk                                               *)
(***************************************************************************)
\* f"{document_id}_chunk_{chunk_index}"; ids are sequences of string pieces
ChunkId(doc, chunk_index) == doc \o <<"_chunk_", ToString(chunk_index)>>

BaseMetadata(txt, chunk_index, start_char, end_char) ==
    [chunk_index |-> chunk_index, char_count |-> Len(txt),
     start_char |-> start_char, end_char |-> end_char]

\* base_metadata.update(metadata): the keys of metadata win
CreateChunk(txt, chunk_index, doc, start_char, end_char, metadata) ==
    [text        |-> Strip(txt),
     chunk_id    |-> ChunkId(doc, chunk_index),
     document_id |-> doc,
     metadata    |-> metadata @@ BaseMetadata(txt, chunk_index, start_char, end_char),
     start_char  |-> start_char,
     end_char    |-> end_char,
     chunk_index |-> chunk_index]

NoMetadata == <<>>      \* metadata=None: the function with the empty domain

(***************************************************************************)
(* FixedSizeChunker.chunk                                                  *)
(***************************************************************************)
\* (mutant: the slice is measured without strip())
FixedStep_NoStrip(cfg, txt, doc, st) ==
    LET end        == Min2(st.start + cfg.chunk_size, Len(txt))
        chunk_text == PySlice(txt, st.start, end)
        emit       == Len(chunk_text) >= cfg.min_chunk_size
    IN  [chunks      |-> IF emit
                         THEN Append(st.chunks,
                                     CreateChunk(chunk_text, st.chunk_index, doc,
                                                 st.start, end, NoMetadata))
                         ELSE st.chunks,
         chunk_index |-> IF emit THEN st.chunk_index + 1 ELSE st.chunk_index,
         start       |-> st.start + cfg.chunk_size - cfg.chunk_overlap]

\* One pass of the while loop: st = [chunks, chunk_index, start].
FixedStep(cfg, txt, doc, st) ==
    LET end        == Min2(st.start + cfg.chunk_size, Len(txt))
        chunk_text == PySlice(txt, st.start, end)
        emit       == Len(Strip(chunk_text)) >= cfg.min_chunk_size
    IN  [chunks      |-> IF emit
                         THEN Append(st.chunks,
                                     CreateChunk(chunk_text, st.chunk_index, doc,
                                                 st.start, end, NoMetadata))
                         ELSE st.chunks,
         chunk_index |-> IF emit THEN st.chunk_index + 1 ELSE st.chunk_index,
         start       |-> st.start + cfg.chunk_size - cfg.chunk_overlap]

RECURSIVE FixedLoop(_, _, _, _)
FixedLoop(cfg, txt, doc, st) ==
    IF st.start < Len(txt)
    THEN FixedLoop(cfg, txt, doc, FixedStep(cfg, txt, doc, st))
    ELSE st.chunks

FixedSizeChunk(cfg, txt, doc) ==
    FixedLoop(cfg, txt, doc, [chunks |-> <<>>, chunk_index |-> 0, start |-> 0])

(***************************************************************************)
(* SentenceChunker._split_into_sentences                                   *)
(***************************************************************************)
\* Characters outside ASCII are written by their code point.
cyr_a  == "U+0430"
cyr_v  == "U+0432"
cyr_d  == "U+0434"
cyr_zh == "U+0436"
cyr_y  == "U+0438"
cyr_k  == "U+043A"
cyr_l  == "U+043B"
cyr_m  == "U+043C"
cyr_n  == "U+043D"
cyr_o  == "U+043E"
cyr_p  == "U+043F"
cyr_r  == "U+0440"
cyr_s  == "U+0441"
cyr_t  == "U+0442"
cyr_f  == "U+0444"
cyr_i  == "U+0456"

ABBREVIATIONS ==
    { <<cyr_d, cyr_r>>, <<cyr_p, cyr_r, cyr_o, cyr_f>>, <<cyr_a, cyr_k, cyr_a, cyr_d>>,
      <<cyr_i, cyr_n, cyr_zh>>, <<cyr_s, cyr_t>>, <<cyr_m, cyr_o, cyr_l>>, <<cyr_r>>,
      <<cyr_r, ".">>, <<cyr_s, cyr_t, ".">>, <<cyr_d, cyr_y, cyr_v, ".">>,
      <<cyr_n, cyr_a, cyr_p, cyr_r, ".">>, <<cyr_t, ".", cyr_d, ".">>,
      <<cyr_t, ".", cyr_p, ".">>,
      <<"M", "r">>, <<"M", "r", "s">>, <<"D", "r">>, <<"P", "r", "o", "f">>,
      <<"I", "n", "c">>, <<"L", "t", "d">>, <<"e", "t", "c">>,
      <<"P", "h", ".", "D">>, <<"M", ".", "D">>, <<"B", ".", "A">>, <<"M", ".", "A">> }

\* str.lower(), character by character; a character without an upper-case
\* form in the table is its own lower case.
UpperCase == <<"A", "B", "C", "D", "E", "F", "G", "H", "I", "J", "K", "L", "M",
               "N", "O", "P", "Q", "R", "S", "T", "U", "V", "W", "X", "Y", "Z">>
LowerCase == <<"a", "b", "c", "d", "e", "f", "g", "h", "i", "j", "k", "l", "m",
               "n", "o", "p", "q", "r", "s", "t", "u", "v", "w", "x", "y", "z">>
LowerChar(c) ==
    IF \E i \in 1..Len(UpperCase) : UpperCase[i] = c
    THEN LowerCase[CHOOSE i \in 1..Len(UpperCase) : UpperCase[i] = c]
    ELSE c
Lower(w) == [i \in 1..Len(w) |-> LowerChar(w[i])]

\* w.rstrip('.!?...')
RStripTerminals(w) ==
    LET keep == {i \in 1..Len(w) : ~IsTerminal(w[i])}
    IN  IF keep = {} THEN <<>> ELSE SubSeq(w, 1, SetMax(keep))

\* s.split()[-1]: the last maximal run of non-whitespace (s has such a run)
LastWord(s) ==
    LET last  == SetMax({i \in 1..Len(s) : ~IsSpace(s[i])})
        first == SetMin({i \in 1..last : \A j \in i..last : ~IsSpace(s[j])})
    IN  SubSeq(s, first, last)

\* SentenceChunker._is_real_sentence_end
IsRealSentenceEnd(sentence) ==
    IF \A i \in 1..Len(sentence) : IsSpace(sentence[i])      \* not words
    THEN TRUE
    ELSE Lower(RStripTerminals(LastWord(sentence))) \notin ABBREVIATIONS

\* match.end() of every match of SENTENCE_ENDINGS, (0-based, exclusive).  A
\* match is a maximal run of terminals followed either by a maximal run of
\* whitespace (first alternative) or by the end of the text (second one).
SentenceMatchEnds(txt) ==
    { e \in 1..Len(txt) :
        \/ /\ IsSpace(txt[e])
           /\ (e = Len(txt) \/ ~IsSpace(txt[e + 1]))
           /\ LET ws == SetMin({i \in 1..e : \A j \in i..e : IsSpace(txt[j])})
              IN  ws > 1 /\ IsTerminal(txt[ws - 1])
        \/ /\ e = Len(txt)
           /\ IsTerminal(txt[e]) }

\* the body of the for loop over the matches; st = [sentences, current_start]
SplitStep(txt, st, end_pos) ==
    LET sentence == Strip(PySlice(txt, st.current_start, end_pos))
    IN  IF IsRealSentenceEnd(sentence)
        THEN [sentences     |-> IF sentence # <<>>
                                THEN Append(st.sentences,
                                            <<sentence, st.current_start, end_pos>>)
                                ELSE st.sentences,
              current_start |-> end_pos]
        ELSE st

RECURSIVE SplitLoop(_, _, _)
SplitLoop(txt, st, ends) ==
    IF ends = {} THEN st
    ELSE SplitLoop(txt, SplitStep(txt, st, SetMin(ends)), ends \ {SetMin(ends)})

\* returns the list of (sentence, start_pos, end_pos)
SplitIntoSentences(txt) ==
    LET st        == SplitLoop(txt, [sentences |-> <<>>, current_start |-> 0],
                               SentenceMatchEnds(txt))
        remaining == Strip(PySlice(txt, st.current_start, Len(txt)))
    IN  IF st.current_start < Len(txt) /\ remaining # <<>>
        THEN Append(st.sentences, <<remaining, st.current_start, Len(txt)>>)
        ELSE st.sentences

(***************************************************************************)
(* SentenceChunker.chunk                                                   *)
(* Loop state st = [chunks, chunk_index, current_chunk_sentences,          *)
(*                  current_chunk_size, current_chunk_start].              *)
(***************************************************************************)
SentenceTexts(sents) == [k \in 1..Len(sents) |-> sents[k][1]]
Reversed(s) == [k \in 1..Len(s) |-> s[Len(s) + 1 - k]]
\* Python s[-n:]
LastN(s, n) == SubSeq(s, Max2(1, Len(s) - n + 1), Len(s))

\* the values of range(0, stop, step), step > 0
RangeFrom0(stop, step) == {k * step : k \in {j \in 0..stop : j * step < stop}}

\* "Save the previous chunk if there is one" before an oversized sentence
SentFlushBeforeLong(doc, st, start_pos) ==
    IF st.current_chunk_sentences # <<>>
    THEN [st EXCEPT
            !.chunks = Append(@,
                CreateChunk(Join(<<" ">>, SentenceTexts(st.current_chunk_sentences)),
                            st.chunk_index, doc, st.current_chunk_start, start_pos,
                            [sentence_count |-> Len(st.current_chunk_sentences)])),
            !.chunk_index = @ + 1,
            !.current_chunk_sentences = <<>>,
            !.current_chunk_size = 0]
    ELSE st

\* (mutant: sub_end is not clamped to the length of the sentence)
LongSentenceStep_Unclamped(cfg, doc, st, sentence, start_pos, sub_start) ==
    LET sub_end   == sub_start + cfg.chunk_size
        sub_chunk == PySlice(sentence, sub_start, sub_end)
    IN  IF Len(Strip(sub_chunk)) >= cfg.min_chunk_size
        THEN [st EXCEPT
                !.chunks = Append(@,
                    CreateChunk(sub_chunk, st.chunk_index, doc,
                                start_pos + sub_start, start_pos + sub_end,
                                [is_long_sentence |-> TRUE])),
                !.chunk_index = @ + 1]
        ELSE st

\* one pass of "for sub_start in range(...)" over an oversized sentence
LongSentenceStep(cfg, doc, st, sentence, start_pos, sub_start) ==
    LET sub_end   == Min2(sub_start + cfg.chunk_size, Len(sentence))
        sub_chunk == PySlice(sentence, sub_start, sub_end)
    IN  IF Len(Strip(sub_chunk)) >= cfg.min_chunk_size
        THEN [st EXCEPT
                !.chunks = Append(@,
                    CreateChunk(sub_chunk, st.chunk_index, doc,
                                start_pos + sub_start, start_pos + sub_end,
                                [is_long_sentence |-> TRUE])),
                !.chunk_index = @ + 1]
        ELSE st

RECURSIVE LongSentenceLoop(_, _, _, _, _, _)
LongSentenceLoop(cfg, doc, st, sentence, start_pos, starts) ==
    IF starts = {} THEN st
    ELSE LongSentenceLoop(cfg, doc,
             LongSentenceStep(cfg, doc, st, sentence, start_pos, SetMin(starts)),
             sentence, start_pos, starts \ {SetMin(starts)})

\* the overlap loop over reversed(current_chunk_sentences[-3:]);
\* ov = [overlap_sentences, overlap_size, overlap_start]
RECURSIVE OverlapLoop(_, _, _)
OverlapLoop(cfg, ov, prev) ==
    IF prev = <<>> THEN ov
    ELSE IF ov.overlap_size + Len(prev[1][1]) <= cfg.chunk_overlap
    THEN OverlapLoop(cfg,
             [overlap_sentences |-> <<prev[1]>> \o ov.overlap_sentences,
              overlap_size      |-> ov.overlap_size + Len(prev[1][1]),
              overlap_start     |-> prev[1][2]],
             Tail(prev))
    ELSE ov                                                     \* break

\* (mutant: only the last two sentences are looked at)
SentenceOverlap_LastTwo(cfg, st) ==
    OverlapLoop(cfg,
                [overlap_sentences |-> <<>>, overlap_size |-> 0,
                 overlap_start |-> st.current_chunk_start],
                Reversed(LastN(st.current_chunk_sentences, 2)))

SentenceOverlap(cfg, st) ==
    OverlapLoop(cfg,
                [overlap_sentences |-> <<>>, overlap_size |-> 0,
                 overlap_start |-> st.current_chunk_start],
                Reversed(LastN(st.current_chunk_sentences, 3)))

\* "adding the sentence would exceed chunk_size": close the chunk, seed the next
SentCloseOnOverflow(cfg, doc, st, start_pos) ==
    LET ov == SentenceOverlap(cfg, st)
    IN  [st EXCEPT
            !.chunks = Append(@,
                CreateChunk(Join(<<" ">>, SentenceTexts(st.current_chunk_sentences)),
                            st.chunk_index, doc, st.current_chunk_start,
                            st.current_chunk_sentences[Len(st.current_chunk_sentences)][3],
                            [sentence_count |-> Len(st.current_chunk_sentences)])),
            !.chunk_index = @ + 1,
            !.current_chunk_sentences = ov.overlap_sentences,
            !.current_chunk_size = ov.overlap_size,
            !.current_chunk_start = IF ov.overlap_sentences # <<>>
                                    THEN ov.overlap_start ELSE start_pos]

\* the body of "for i, (sentence, start_pos, end_pos) in enumerate(sentences)"
SentenceStep(cfg, doc, st, sent) ==
    LET sentence        == sent[1]
        start_pos       == sent[2]
        end_pos         == sent[3]
        sentence_length == Len(sentence)
    IN  IF sentence_length > cfg.chunk_size
        THEN [LongSentenceLoop(cfg, doc, SentFlushBeforeLong(doc, st, start_pos),
                               sentence, start_pos,
                               RangeFrom0(sentence_length,
                                          cfg.chunk_size - cfg.chunk_overlap))
                EXCEPT !.current_chunk_start = end_pos]          \* continue
        ELSE LET st1 == IF /\ st.current_chunk_size + sentence_length > cfg.chunk_size
                           /\ st.current_chunk_sentences # <<>>
                        THEN SentCloseOnOverflow(cfg, doc, st, start_pos)
                        ELSE st
             IN  [st1 EXCEPT
                    !.current_chunk_sentences = Append(@, sent),
                    !.current_chunk_size = @ + sentence_length]

RECURSIVE SentenceLoop(_, _, _, _)
SentenceLoop(cfg, doc, st, sents) ==
    IF sents = <<>> THEN st
    ELSE SentenceLoop(cfg, doc, SentenceStep(cfg, doc, st, Head(sents)), Tail(sents))

\* (mutant: the last chunk is appended without the min_chunk_size test)
SentenceFinal_NoMinCheck(cfg, txt, doc, st) ==
    LET chunk_text == Join(<<" ">>, SentenceTexts(st.current_chunk_sentences))
    IN  IF st.current_chunk_sentences # <<>>
        THEN Append(st.chunks,
                    CreateChunk(chunk_text, st.chunk_index, doc,
                                st.current_chunk_start, Len(txt),
                                [sentence_count |-> Len(st.current_chunk_sentences)]))
        ELSE st.chunks

\* "Add the last chunk"
SentenceFinal(cfg, txt, doc, st) ==
    LET chunk_text == Join(<<" ">>, SentenceTexts(st.current_chunk_sentences))
    IN  IF /\ st.current_chunk_sentences # <<>>
           /\ Len(Strip(chunk_text)) >= cfg.min_chunk_size
        THEN Append(st.chunks,
                    CreateChunk(chunk_text, st.chunk_index, doc,
                                st.current_chunk_start, Len(txt),
                                [sentence_count |-> Len(st.current_chunk_sentences)]))
        ELSE st.chunks

SentenceChunk(cfg, txt, doc) ==
    SentenceFinal(cfg, txt, doc,
        SentenceLoop(cfg, doc,
                     [chunks |-> <<>>, chunk_index |-> 0,
                      current_chunk_sentences |-> <<>>,
                      current_chunk_size |-> 0, current_chunk_start |-> 0],
                     SplitIntoSentences(txt)))

(***************************************************************************)
(* SemanticChunker._split_into_paragraphs                                  *)
(***************************************************************************)
\* The matches <<start, end>> (0-based, end exclusive) of PARAGRAPH_SEPARATOR,
\* \n\s*\n+ : in a maximal run of whitespace holding two newlines or more,
\* from its first newline to just after its last one.
ParagraphMatches(txt) ==
    { m \in (0..Len(txt)) \X (0..Len(txt)) :
        /\ m[1] + 1 < m[2]
        /\ txt[m[1] + 1] = "\n"
        /\ txt[m[2]] = "\n"
        /\ \A j \in (m[1] + 1)..m[2] : IsSpace(txt[j])
        \* no newline of the run before the first or after the last
        /\ \A j \in 1..m[1] : (\A k \in j..m[1] : IsSpace(txt[k])) => txt[j] # "\n"
        /\ \A j \in (m[2] + 1)..Len(txt) :
              (\A k \in (m[2] + 1)..j : IsSpace(txt[k])) => txt[j] # "\n" }

\* the body of the for loop over the matches; st = [paragraphs, last_end]
ParaSplitStep(txt, st, m) ==
    LET para_text == Strip(PySlice(txt, st.last_end, m[1]))
    IN  [paragraphs |-> IF para_text # <<>>
                        THEN Append(st.paragraphs, <<para_text, st.last_end, m[1]>>)
                        ELSE st.paragraphs,
         last_end   |-> m[2]]

RECURSIVE ParaSplitLoop(_, _, _)
ParaSplitLoop(txt, st, ms) ==
    IF ms = {} THEN st
    ELSE LET m == CHOOSE x \in ms : \A y \in ms : x[1] <= y[1]
         IN  ParaSplitLoop(txt, ParaSplitStep(txt, st, m), ms \ {m})

\* returns the list of (para_text, start, end)
SplitIntoParagraphs(txt) ==
    LET st        == ParaSplitLoop(txt, [paragraphs |-> <<>>, last_end |-> 0],
                                   ParagraphMatches(txt))
        para_text == Strip(PySlice(txt, st.last_end, Len(txt)))
    IN  IF st.last_end < Len(txt) /\ para_text # <<>>
        THEN Append(st.paragraphs, <<para_text, st.last_end, Len(txt)>>)
        ELSE st.paragraphs

(***************************************************************************)
(* SemanticChunker._extract_section_title                                  *)
(***************************************************************************)
None == <<"None">>          \* Python None where a string is expected

Digits == {"0", "1", "2", "3", "4", "5", "6", "7", "8", "9"}
\* the class [U+0410-U+042F U+0406 U+0407 U+0404 U+0490 A-Z] of SECTION_MARKERS
UpperLetters ==
    {UpperCase[i] : i \in 1..Len(UpperCase)} \cup
    {
      "U+0410", "U+0411", "U+0412", "U+0413", "U+0414", "U+0415",
      "U+0416", "U+0417", "U+0418", "U+0419", "U+041A", "U+041B",
      "U+041C", "U+041D", "U+041E", "U+041F", "U+0420", "U+0421",
      "U+0422", "U+0423", "U+0424", "U+0425", "U+0426", "U+0427",
      "U+0428", "U+0429", "U+042A", "U+042B", "U+042C", "U+042D",
      "U+042E", "U+042F", "U+0406", "U+0407", "U+0404", "U+0490" }
Hashes            == {"#"}
UpperOrSpace      == UpperLetters \cup Whitespace
IsHash(c)         == c \in Hashes
IsUpper(c)        == c \in UpperLetters

\* end (0-based, exclusive) of the longest run of characters of the class cls
\* that starts at p
RunEnd(s, p, cls) == SetMax({e \in p..Len(s) : \A j \in (p + 1)..e : s[j] \in cls})

\* end of a greedy ".+" starting at p, or -1 when it cannot match
DotPlusEnd(s, p) ==
    IF p < Len(s) /\ s[p + 1] # "\n"
    THEN SetMin({e \in (p + 1)..Len(s) : e = Len(s) \/ s[e + 1] = "\n"})
    ELSE -1

\* #{1,6}\s+.+
MarkdownHeaderEnd(s) ==
    LET h  == RunEnd(s, 0, Hashes)
        w  == RunEnd(s, h, Whitespace)
        ks == {k \in (h + 1)..w : DotPlusEnd(s, k) # -1}
    IN  IF h >= 1 /\ h <= 6 /\ ks # {} THEN DotPlusEnd(s, SetMax(ks)) ELSE -1

\* \d+\.\s+[A-Z].+
NumberedHeaderEnd(s) ==
    LET d == RunEnd(s, 0, Digits)
        w == RunEnd(s, d + 1, Whitespace)
    IN  IF /\ d >= 1
           /\ d < Len(s) /\ s[d + 1] = "."
           /\ w > d + 1
           /\ w < Len(s) /\ IsUpper(s[w + 1])
           /\ DotPlusEnd(s, w + 1) # -1
        THEN DotPlusEnd(s, w + 1) ELSE -1

\* [A-Z][A-Z\s]{3,}
CapsHeaderEnd(s) ==
    IF Len(s) >= 1 /\ IsUpper(s[1]) /\ RunEnd(s, 1, UpperOrSpace) >= 4
    THEN RunEnd(s, 1, UpperOrSpace) ELSE -1

\* word\s+\d+
WordNumberEnd(s, word) ==
    LET w == RunEnd(s, Len(word), Whitespace)
        d == RunEnd(s, w, Digits)
    IN  IF /\ Len(s) >= Len(word) /\ SubSeq(s, 1, Len(word)) = word
           /\ w > Len(word)
           /\ d > w
        THEN d ELSE -1

SectionWords ==
    << <<"U+0420", cyr_o, "U+0437", cyr_d, cyr_i, cyr_l>>,
       <<"C", "h", "a", "p", "t", "e", "r">>,
       <<"U+0413", cyr_l, cyr_a, cyr_v, cyr_a>> >>

\* SECTION_MARKERS.match(s).end(), or -1 when there is no match; the
\* alternatives are tried in the order of the pattern
SectionMatchEnd(s) ==
    IF MarkdownHeaderEnd(s) # -1 THEN MarkdownHeaderEnd(s)
    ELSE IF NumberedHeaderEnd(s) # -1 THEN NumberedHeaderEnd(s)
    ELSE IF CapsHeaderEnd(s) # -1 THEN CapsHeaderEnd(s)
    ELSE IF WordNumberEnd(s, SectionWords[1]) # -1 THEN WordNumberEnd(s, SectionWords[1])
    ELSE IF WordNumberEnd(s, SectionWords[2]) # -1 THEN WordNumberEnd(s, SectionWords[2])
    ELSE WordNumberEnd(s, SectionWords[3])

\* s.strip('#')
StripHash(s) ==
    LET keep == {i \in 1..Len(s) : ~IsHash(s[i])}
    IN  IF keep = {} THEN <<>> ELSE SubSeq(s, SetMin(keep), SetMax(keep))

ExtractSectionTitle(s) ==
    IF SectionMatchEnd(s) # -1
    THEN Strip(StripHash(SubSeq(s, 1, SectionMatchEnd(s))))
    ELSE None

(***************************************************************************)
(* SemanticChunker.chunk                                                   *)
(* Loop state st = [chunks, chunk_index, current_chunk_paras,              *)
(*          current_chunk_size, current_chunk_start, current_section].     *)
(***************************************************************************)
ParaMetadata(st) ==
    [paragraph_count |-> Len(st.current_chunk_paras), section |-> st.current_section]

\* f"{document_id}_para{i}"
ParaDocId(doc, i) == doc \o <<"_para", ToString(i)>>

\* the chunk closed at paragraph boundary start_pos
ParaClosedChunk(doc, st, start_pos) ==
    CreateChunk(Join(<<"\n", "\n">>, st.current_chunk_paras),
                st.chunk_index, doc, st.current_chunk_start, start_pos,
                ParaMetadata(st))

\* "Save the previous chunk" before an oversized paragraph
ParaFlushBeforeLong(doc, st, start_pos) ==
    IF st.current_chunk_paras # <<>>
    THEN [st EXCEPT
            !.chunks = Append(@, ParaClosedChunk(doc, st, start_pos)),
            !.chunk_index = @ + 1,
            !.current_chunk_paras = <<>>,
            !.current_chunk_size = 0]
    ELSE st

\* (mutant: the chunk keeps the index the sentence chunker gave it)
AdoptSubChunk_KeepIndex(doc, st, sub_chunk, start_pos) ==
    [sub_chunk EXCEPT
        !.chunk_id    = ChunkId(doc, sub_chunk.chunk_index),
        !.document_id = doc,
        !.metadata    = [section |-> st.current_section,
                         from_long_paragraph |-> TRUE] @@ @,
        !.start_char  = start_pos + @,
        !.end_char    = start_pos + @]

\* "Update the metadata" of one chunk that the sentence chunker returned
AdoptSubChunk(doc, st, sub_chunk, start_pos) ==
    [sub_chunk EXCEPT
        !.chunk_index = st.chunk_index,
        !.chunk_id    = ChunkId(doc, st.chunk_index),
        !.document_id = doc,
        !.metadata    = [section |-> st.current_section,
                         from_long_paragraph |-> TRUE] @@ @,
        !.start_char  = start_pos + @,
        !.end_char    = start_pos + @]

RECURSIVE AdoptLoop(_, _, _, _)
AdoptLoop(doc, st, sub_chunks, start_pos) ==
    IF sub_chunks = <<>> THEN st
    ELSE AdoptLoop(doc,
             [st EXCEPT
                !.chunks = Append(@, AdoptSubChunk(doc, st, Head(sub_chunks), start_pos)),
                !.chunk_index = @ + 1],
             Tail(sub_chunks), start_pos)

\* (mutant: the carried paragraph does not move the start of the chunk)
ParaOverlap_StartAtNew(cfg, st, paragraphs, i, start_pos) ==
    LET last_para == st.current_chunk_paras[Len(st.current_chunk_paras)]
    IN  IF cfg.chunk_overlap > 0 /\ Len(last_para) <= cfg.chunk_overlap
        THEN [st EXCEPT
                !.current_chunk_paras = <<last_para>>,
                !.current_chunk_size = Len(last_para),
                !.current_chunk_start = start_pos]
        ELSE [st EXCEPT
                !.current_chunk_paras = <<>>,
                !.current_chunk_size = 0,
                !.current_chunk_start = start_pos]

\* "Overlap - the last paragraph", after the chunk was closed at paragraph i
ParaOverlap(cfg, st, paragraphs, i, start_pos) ==
    LET last_para == st.current_chunk_paras[Len(st.current_chunk_paras)]
    IN  IF cfg.chunk_overlap > 0 /\ Len(st.current_chunk_paras) > 0
        THEN IF Len(last_para) <= cfg.chunk_overlap
             THEN [st EXCEPT
                     !.current_chunk_paras = <<last_para>>,
                     !.current_chunk_size = Len(last_para),
                     !.current_chunk_start = IF i > 0 THEN paragraphs[i][2] ELSE @]
             ELSE [st EXCEPT
                     !.current_chunk_paras = <<>>,
                     !.current_chunk_size = 0,
                     !.current_chunk_start = start_pos]
        ELSE [st EXCEPT
                !.current_chunk_paras = <<>>,
                !.current_chunk_size = 0,
                !.current_chunk_start = start_pos]

\* the body of "for i, (para, start_pos, end_pos) in enumerate(paragraphs)";
\* i is the 0-based position, paragraphs[i + 1] the paragraph
ParaStep(cfg, doc, st0, paragraphs, i) ==
    LET para          == paragraphs[i + 1][1]
        start_pos     == paragraphs[i + 1][2]
        end_pos       == paragraphs[i + 1][3]
        section_title == ExtractSectionTitle(para)
        st            == IF section_title # None /\ section_title # <<>>
                         THEN [st0 EXCEPT !.current_section = section_title]
                         ELSE st0
        para_length   == Len(para)
    IN  IF para_length > cfg.chunk_size
        THEN [AdoptLoop(doc, ParaFlushBeforeLong(doc, st, start_pos),
                        SentenceChunk(cfg, para, ParaDocId(doc, i)), start_pos)
                EXCEPT !.current_chunk_start = end_pos]          \* continue
        ELSE LET st1 == IF /\ st.current_chunk_size + para_length > cfg.chunk_size
                           /\ st.current_chunk_paras # <<>>
                        THEN ParaOverlap(cfg,
                                 [st EXCEPT
                                    !.chunks = Append(@, ParaClosedChunk(doc, st, start_pos)),
                                    !.chunk_index = @ + 1],
                                 paragraphs, i, start_pos)
                        ELSE st
             IN  [st1 EXCEPT
                    !.current_chunk_paras = Append(@, para),
                    !.current_chunk_size = @ + para_length]

RECURSIVE ParaLoop(_, _, _, _, _)
ParaLoop(cfg, doc, st, paragraphs, i) ==
    IF i >= Len(paragraphs) THEN st
    ELSE ParaLoop(cfg, doc, ParaStep(cfg, doc, st, paragraphs, i), paragraphs, i + 1)

\* "The last chunk"
ParaFinal(cfg, txt, doc, st) ==
    LET chunk_text == Join(<<"\n", "\n">>, st.current_chunk_paras)
    IN  IF /\ st.current_chunk_paras # <<>>
           /\ Len(Strip(chunk_text)) >= cfg.min_chunk_size
        THEN Append(st.chunks,
                    CreateChunk(chunk_text, st.chunk_index, doc,
                                st.current_chunk_start, Len(txt), ParaMetadata(st)))
        ELSE st.chunks

SemanticChunk(cfg, txt, doc) ==
    ParaFinal(cfg, txt, doc,
        ParaLoop(cfg, doc,
                 [chunks |-> <<>>, chunk_index |-> 0, current_chunk_paras |-> <<>>,
                  current_chunk_size |-> 0, current_chunk_start |-> 0,
                  current_section |-> None],
                 SplitIntoParagraphs(txt), 0))

(***************************************************************************)
(* The chunking engine as a state machine: a ChunkingConfig is constructed *)
(* (and rejected or accepted by __post_init__), then one of the three      *)
(* chunkers built on the accepted config is called on a text.              *)
(***************************************************************************)
ChunkSizes == 1..MaxSize
Overlaps   == -1..MaxSize
MinSizes   == 0..(MaxSize + 1)
Texts      == SeqsUpTo(Alphabet, MaxLen)
ParaTexts  == SeqsUpTo(ParaAlphabet, MaxParaLen)
DocIds     == {<<"d1">>}

\* the worked example of the documentation: 1050 non-blank characters,
\* chunk_size=500, chunk_overlap=100, min_chunk_size=100
ExampleConfig == [chunk_size |-> 500, chunk_overlap |-> 100, min_chunk_size |-> 100]
ExampleText   == [i \in 1..1050 |-> "a"]

\* the texts tried with a config: the example text with the example config
TextsFor(cfg, texts) == IF cfg = ExampleConfig THEN {ExampleText} ELSE texts

ChunkInit ==
    /\ phase = "new"
    /\ config = NoConfig
    /\ strategy = "none"
    /\ text = <<>>
    /\ document_id = <<>>
    /\ chunks = <<>>

\* ChunkingConfig(chunk_size, chunk_overlap, min_chunk_size)
NewConfig(chunk_size, chunk_overlap, min_chunk_size) ==
    /\ config' = [chunk_size |-> chunk_size, chunk_overlap |-> chunk_overlap,
                  min_chunk_size |-> min_chunk_size]
    /\ phase' = IF ConfigRejected(chunk_size, chunk_overlap, min_chunk_size)
                THEN "rejected"                 \* ValueError
                ELSE "ready"
    /\ UNCHANGED <<strategy, text, document_id, chunks>>

\* FixedSizeChunker(config).chunk(txt, doc)
ChunkFixed(txt, doc) ==
    /\ phase' = "chunked"
    /\ strategy' = "fixed"
    /\ text' = txt
    /\ document_id' = doc
    /\ chunks' = FixedSizeChunk(config, txt, doc)
    /\ UNCHANGED config

\* SentenceChunker(config).chunk(txt, doc)
ChunkSentence(txt, doc) ==
    /\ phase' = "chunked"
    /\ strategy' = "sentence"
    /\ text' = txt
    /\ document_id' = doc
    /\ chunks' = SentenceChunk(config, txt, doc)
    /\ UNCHANGED config

\* SemanticChunker(config).chunk(txt, doc)
ChunkSemantic(txt, doc) ==
    /\ phase' = "chunked"
    /\ strategy' = "semantic"
    /\ text' = txt
    /\ document_id' = doc
    /\ chunks' = SemanticChunk(config, txt, doc)
    /\ UNCHANGED config

(***************************************************************************)
(* FAISSStorage                                                            *)
(*                                                                         *)
(* A stored vector is kept exactly: [v |-> integer vector, n2 |-> k]       *)
(* stands for v / sqrt(k).  The IndexFlatIP is the sequence of its         *)
(* vectors, the vector with faiss id i is index[i + 1].                    *)
(***************************************************************************)
SquaredNorm(v) ==
    LET RECURSIVE Sum(_)
        Sum(k) == IF k = 0 THEN 0 ELSE v[k] * v[k] + Sum(k - 1)
    IN  Sum(Len(v))

\* (mutant: nothing is normalised)
Normalize_Never(normalize, v) == [v |-> v, n2 |-> 1]

\* FAISSStorage._normalize, one row
Normalize(normalize, v) ==
    IF ~normalize THEN [v |-> v, n2 |-> 1]
    ELSE IF SquaredNorm(v) = 0 THEN [v |-> v, n2 |-> 1]      \* norms[norms == 0] = 1
    ELSE [v |-> v, n2 |-> SquaredNorm(v)]

\* dict.get(key, default)
DictGet(d, key, default) == IF key \in DOMAIN d THEN d[key] ELSE default

\* d[key] = value
DictSet(d, key, value) == (key :> value) @@ d

EmptyDict == <<>>

\* TextChunk.__post_init__: the base metadata is added where it is missing
TextChunkPostInit(chunk) ==
    [chunk EXCEPT !.metadata = @ @@ [char_count |-> Len(chunk.text),
                                     start_char |-> chunk.start_char,
                                     end_char   |-> chunk.end_char]]

\* the TextChunk that add() builds from one EmbedderResult
StoredChunk(emb) ==
    TextChunkPostInit(
        [text        |-> DictGet(emb.metadata, "text", <<>>),
         chunk_id    |-> emb.chunk_id,
         document_id |-> emb.document_id,
         metadata    |-> emb.metadata,
         start_char  |-> 0,
         end_char    |-> 0,
         chunk_index |-> DictGet(emb.metadata, "chunk_index", 0)])

\* (mutant: ids are counted from 1)
FaissId_OffByOne(nxt, i) == nxt + i + 1

\* faiss_id = self.next_id + i, for the i-th (0-based) embedding of the batch
FaissId(nxt, i) == nxt + i

\* "for i, emb in enumerate(embeddings)": st = [metadata_store, chunk_id_to_faiss_id]
RECURSIVE RegisterLoop(_, _, _, _)
RegisterLoop(st, nxt, embeddings, i) ==
    IF i >= Len(embeddings) THEN st
    ELSE RegisterLoop(
            [metadata_store       |-> DictSet(st.metadata_store, FaissId(nxt, i),
                                              StoredChunk(embeddings[i + 1])),
             chunk_id_to_faiss_id |-> DictSet(st.chunk_id_to_faiss_id,
                                              embeddings[i + 1].chunk_id, FaissId(nxt, i))],
            nxt, embeddings, i + 1)

\* (mutant: there is no early return)
AddReturnsEarly_Never(embeddings) == FALSE

\* the "if not embeddings: return" of add()
AddReturnsEarly(embeddings) == embeddings = <<>>

\* np.array([]) has one axis only: norm(axis=1) in _normalize, or the
\* unpacking of its shape in index.add, raises
NumpyRaises(embeddings) == embeddings = <<>>

\* np.array(rows of unequal length, dtype=float32) raises ValueError
RaggedRows(embeddings) ==
    \E j, k \in 1..Len(embeddings) : Len(embeddings[j].vector) # Len(embeddings[k].vector)

\* faiss: index.add(x) and index.search(x, k) start with "assert d == self.d"
WrongDimension(row, d) == Len(row) # d

NoFile == [exists |-> FALSE]

\* nothing has been saved yet
NotSaved == [exists |-> FALSE]

\* the in-memory state of the object, as a record
Snapshot ==
    [index                |-> index,
     index_d              |-> index_d,
     metadata_store       |-> metadata_store,
     chunk_id_to_faiss_id |-> chunk_id_to_faiss_id,
     next_id              |-> next_id,
     dimension            |-> dimension,
     normalize_vectors    |-> normalize_vectors]

\* the threads that call into one FAISSStorage; a thread outside a call is Idle
Threads == {"t1", "t2"}
Idle == [pc |-> "idle"]

StoreInit ==
    /\ threads = [t \in Threads |-> Idle]
    /\ index = <<>>
    /\ index_d = Dim
    /\ metadata_store = EmptyDict
    /\ chunk_id_to_faiss_id = EmptyDict
    /\ next_id = 0
    /\ dimension = Dim
    /\ disk_faiss = NoFile
    /\ disk_pkl = NoFile
    /\ last_op = [op |-> "init", n |-> 0, result |-> "ok"]
    /\ saved = NotSaved

\* FAISSStorage.add(embeddings)
Add(embeddings) ==
    /\ Len(index) + Len(embeddings) <= MaxVectors
    /\ IF AddReturnsEarly(embeddings)
       THEN /\ last_op' = [op |-> "add", n |-> Len(embeddings), result |-> "ok"]
            /\ UNCHANGED store_vars
       ELSE IF NumpyRaises(embeddings)
       THEN /\ last_op' = [op |-> "add", n |-> Len(embeddings), result |-> "error"]
            /\ UNCHANGED store_vars
       ELSE IF RaggedRows(embeddings)
       THEN /\ last_op' = [op |-> "add", n |-> Len(embeddings), result |-> "ValueError"]
            /\ UNCHANGED store_vars
       ELSE IF WrongDimension(embeddings[1].vector, index_d)
       THEN /\ last_op' = [op |-> "add", n |-> Len(embeddings), result |-> "AssertionError"]
            /\ UNCHANGED store_vars
       ELSE LET reg == RegisterLoop([metadata_store |-> metadata_store,
                                     chunk_id_to_faiss_id |-> chunk_id_to_faiss_id],
                                    next_id, embeddings, 0)
            IN  /\ last_op' = [op |-> "add", n |-> Len(embeddings), result |-> "ok"]
                /\ index' = index \o [k \in 1..Len(embeddings) |->
                                        Normalize(normalize_vectors, embeddings[k].vector)]
                /\ metadata_store' = reg.metadata_store
                /\ chunk_id_to_faiss_id' = reg.chunk_id_to_faiss_id
                /\ next_id' = next_id + Len(embeddings)
                /\ UNCHANGED <<index_d, dimension, normalize_vectors>>
    /\ UNCHANGED <<disk_vars, hist_vars, faiss_ties>>

\* (mutant: the records are left out of the metadata)
PickledMetadata_NoRecords(store, ids, nxt, d) ==
    [exists |-> TRUE, metadata_store |-> EmptyDict, chunk_id_to_faiss_id |-> ids,
     next_id |-> nxt, dimension |-> d]

\* the dict that save() pickles
PickledMetadata(store, ids, nxt, d) ==
    [exists |-> TRUE, metadata_store |-> store, chunk_id_to_faiss_id |-> ids,
     next_id |-> nxt, dimension |-> d]

\* FAISSStorage.save(filepath): the index file, then the pickled metadata
Save ==
    /\ disk_faiss' = [exists |-> TRUE, index |-> index, d |-> index_d]
    /\ disk_pkl' = PickledMetadata(metadata_store, chunk_id_to_faiss_id, next_id, dimension)
    /\ last_op' = [op |-> "save", n |-> 0, result |-> "ok"]
    /\ saved' = [exists |-> TRUE, same_object |-> TRUE] @@ Snapshot
    /\ UNCHANGED <<store_vars, faiss_ties>>

\* (mutant: the index is replaced before the metadata artifact is looked for)
LoadedIndex_BeforeCheck(current, current_d, faiss_file, pkl_file) ==
    IF faiss_file.exists THEN [index |-> faiss_file.index, d |-> faiss_file.d]
    ELSE [index |-> current, d |-> current_d]

\* self.index after load(): both existence checks come before read_index
LoadedIndex(current, current_d, faiss_file, pkl_file) ==
    IF faiss_file.exists /\ pkl_file.exists
    THEN [index |-> faiss_file.index, d |-> faiss_file.d]
    ELSE [index |-> current, d |-> current_d]

\* FAISSStorage.load(filepath)
Load ==
    /\ index' = LoadedIndex(index, index_d, disk_faiss, disk_pkl).index
    /\ index_d' = LoadedIndex(index, index_d, disk_faiss, disk_pkl).d
    /\ IF ~disk_faiss.exists \/ ~disk_pkl.exists
       THEN /\ last_op' = [op |-> "load", n |-> 0, result |-> "FileNotFoundError"]
            /\ UNCHANGED <<metadata_store, chunk_id_to_faiss_id, next_id>>
       ELSE /\ metadata_store' = disk_pkl.metadata_store
            /\ chunk_id_to_faiss_id' = disk_pkl.chunk_id_to_faiss_id
            /\ next_id' = disk_pkl.next_id
            /\ last_op' = [op |-> "load", n |-> 0, result |-> "ok"]
    /\ UNCHANGED <<dimension, normalize_vectors>>
    /\ UNCHANGED <<disk_vars, hist_vars, faiss_ties>>

\* (mutant: the counter survives clear())
ClearedNextId_Kept(nxt) == nxt

\* "self.next_id = 0" of clear()
ClearedNextId(nxt) == 0

\* FAISSStorage.clear()
Clear ==
    /\ index' = <<>>
    /\ index_d' = dimension
    /\ metadata_store' = EmptyDict
    /\ chunk_id_to_faiss_id' = EmptyDict
    /\ next_id' = ClearedNextId(next_id)
    /\ last_op' = [op |-> "clear", n |-> Len(index), result |-> "ok"]
    /\ UNCHANGED <<dimension, normalize_vectors, disk_vars, hist_vars, faiss_ties>>

(***************************************************************************)
(* search().  Numbers are kept exactly: Real(p, r) is p / sqrt(r), r > 0,  *)
(* which is what an inner product of rows scaled by 1 / norm is; the       *)
(* rounding of float32 is not modelled.                                    *)
(***************************************************************************)
Dot(u, v) ==
    LET RECURSIVE Sum(_)
        Sum(k) == IF k = 0 THEN 0 ELSE u[k] * v[k] + Sum(k - 1)
    IN  Sum(Len(u))

Real(p, r) == [p |-> p, r |-> r]

\* x >= y
RealGE(x, y) ==
    IF x.p >= 0 /\ y.p <= 0 THEN TRUE
    ELSE IF x.p < 0 /\ y.p >= 0 THEN FALSE
    ELSE IF x.p >= 0 THEN x.p * x.p * y.r >= y.p * y.p * x.r
    ELSE x.p * x.p * y.r <= y.p * y.p * x.r

RealGT(x, y) == ~RealGE(y, x)
RealEQ(x, y) == RealGE(x, y) /\ RealGE(y, x)

\* IndexFlatIP: the distance of a query row to a stored row is their inner product
InnerProduct(query, stored) == Real(Dot(query.v, stored.v), query.n2 * stored.n2)

\* the orders in which a faiss build may list equal distances
TieOrders == {"ascending", "descending"}

\* what faiss puts where it has no neighbour left: label -1
NoNeighbour == <<Real(-1, 1), -1>>

\* IndexFlatIP.search(query, k), k >= 1: the k labels of largest distance,
\* largest first, as <<distance, label>> pairs
FaissSearch(idx, query, k, ties) ==
    LET labels == 0..(Len(idx) - 1)
        dist == [i \in labels |-> InnerProduct(query, idx[i + 1])]
        Before(i, j) == \/ RealGT(dist[i], dist[j])
                        \/ /\ RealEQ(dist[i], dist[j])
                           /\ IF ties = "ascending" THEN i < j ELSE i > j
        rank == [i \in labels |-> Cardinality({j \in labels : Before(j, i)})]
    IN  [pos \in 1..k |->
            IF pos > Len(idx) THEN NoNeighbour
            ELSE LET i == CHOOSE i \in labels : rank[i] = pos - 1
                 IN  <<dist[i], i>>]

\* score = float((dist + 1) / 2): a score is kept as [d |-> dist]
ToScore(dist) == [d |-> dist]

\* the float x = n / den as a score: (d + 1) / 2 = n / den
ScoreOf(n, den) == [d |-> Real(2 * n - den, den * den)]

ScoreGE(s, t) == RealGE(s.d, t.d)
ScoreGT(s, t) == RealGT(s.d, t.d)

\* (mutant: the score is stored as computed)
ClampScore_None(score) == score

\* SearchResult.__post_init__: "if self.score > 1.0 ... elif self.score < 0.0"
ClampScore(score) ==
    IF ScoreGT(score, ScoreOf(1, 1)) THEN ScoreOf(1, 1)
    ELSE IF ScoreGT(ScoreOf(0, 1), score) THEN ScoreOf(0, 1)
    ELSE score

\* SearchResult(chunk=chunk, score=score, document_id=..., chunk_id=...)
MakeSearchResult(chunk, score) ==
    [chunk       |-> chunk,
     score       |-> ClampScore(score),
     document_id |-> chunk.document_id,
     chunk_id    |-> chunk.chunk_id,
     metadata    |-> chunk.metadata]

\* "for dist, idx in zip(distances[0], indices[0])": a hit is skipped when
\* idx == -1 or when metadata_store.get(idx) is None
RECURSIVE CollectResults(_, _, _)
CollectResults(hits, store, j) ==
    IF j > Len(hits) THEN <<>>
    ELSE IF hits[j][2] = -1 \/ hits[j][2] \notin DOMAIN store
         THEN CollectResults(hits, store, j + 1)
         ELSE <<MakeSearchResult(store[hits[j][2]], ToScore(hits[j][1]))>>
              \o CollectResults(hits, store, j + 1)

\* (mutant: there is no early return)
SearchReturnsEarly_Never(idx) == FALSE

\* "if self.index.ntotal == 0: return []"
SearchReturnsEarly(idx) == Len(idx) = 0

\* (mutant: every stored vector is asked for)
ClampTopK_Ntotal(top_k, ntotal) == ntotal

\* top_k = min(top_k, self.index.ntotal)
ClampTopK(top_k, ntotal) == Min2(top_k, ntotal)

\* faiss: index.search(x, k) goes on with "assert k > 0"
FaissRejects(query_vector, k, d) == WrongDimension(query_vector, d) \/ k <= 0

\* FAISSStorage.search(query_vector, top_k) of the object st
SearchOutcome(st, query_vector, top_k, ties) ==
    IF SearchReturnsEarly(st.index) THEN [result |-> "ok", results |-> <<>>]
    ELSE LET query == Normalize(st.normalize_vectors, query_vector)
             k == ClampTopK(top_k, Len(st.index))
         IN  IF FaissRejects(query_vector, k, st.index_d)
             THEN [result |-> "AssertionError", results |-> <<>>]
             ELSE [result  |-> "ok",
                   results |-> CollectResults(
                                  FaissSearch(st.index, query, k, ties),
                                  st.metadata_store, 1)]

\* FAISSStorage.search(query_vector, top_k)
Search(query_vector, top_k) ==
    /\ last_op' = [op |-> "search", n |-> top_k, query |-> query_vector]
                  @@ SearchOutcome(Snapshot, query_vector, top_k, faiss_ties)
    /\ UNCHANGED <<store_vars, disk_vars, hist_vars, faiss_ties>>

\* FAISSStorage.get_stats() of the object st
StatsOf(st) ==
    [total_vectors     |-> Len(st.index),
     dimension         |-> st.dimension,
     unique_documents  |-> Cardinality({st.metadata_store[i].document_id :
                                           i \in DOMAIN st.metadata_store}),
     normalize_vectors |-> st.normalize_vectors,
     metadata_count    |-> Cardinality(DOMAIN st.metadata_store)]

\* FAISSStorage.get_stats()
GetStats ==
    /\ last_op' = [op |-> "get_stats", n |-> 0, result |-> "ok", stats |-> StatsOf(Snapshot)]
    /\ UNCHANGED <<store_vars, disk_vars, hist_vars, faiss_ties>>

\* (mutant: a score equal to the floor is dropped)
PassesFloor_Strict(score, min_similarity) == ScoreGT(score, min_similarity)

\* "r.score >= self.min_similarity"
PassesFloor(score, min_similarity) == ScoreGE(score, min_similarity)

\* filtered_results = [r for r in results if r.score >= self.min_similarity]
FilterResults(results, min_similarity) ==
    SelectSeq(results, LAMBDA r : PassesFloor(r.score, min_similarity))

\* Retriever.retrieve(query, top_k), query_vector = embedder.embed(query).vector;
\* an exception of search() passes through
RetrieveOutcome(found, min_similarity) ==
    IF found.result = "ok"
    THEN [result |-> "ok", results |-> FilterResults(found.results, min_similarity)]
    ELSE found

Retrieve(query_vector, top_k, min_similarity) ==
    /\ last_op' = [op |-> "retrieve", n |-> top_k, query |-> query_vector,
                   min_similarity |-> min_similarity]
                  @@ RetrieveOutcome(SearchOutcome(Snapshot, query_vector, top_k, faiss_ties),
                                     min_similarity)
    /\ UNCHANGED <<store_vars, disk_vars, hist_vars, faiss_ties>>

\* a new FAISSStorage(dimension=d, normalize_vectors=normalize) takes the
\* place of the object; the artifacts stay where they are
New(d, normalize) ==
    /\ index' = <<>>
    /\ index_d' = d
    /\ metadata_store' = EmptyDict
    /\ chunk_id_to_faiss_id' = EmptyDict
    /\ next_id' = 0
    /\ dimension' = d
    /\ normalize_vectors' = normalize
    /\ last_op' = [op |-> "init", n |-> 0, result |-> "ok"]
    /\ saved' = IF saved.exists THEN [saved EXCEPT !.same_object = FALSE] ELSE saved
    /\ UNCHANGED <<disk_vars, faiss_ties>>

\* one of the two artifacts is removed from the directory (Path.exists() of
\* load() sees it gone)
RemoveArtifact(which) ==
    /\ IF which = "faiss"
       THEN disk_faiss.exists /\ disk_faiss' = NoFile /\ UNCHANGED disk_pkl
       ELSE disk_pkl.exists /\ disk_pkl' = NoFile /\ UNCHANGED disk_faiss
    /\ last_op' = [op |-> "remove", n |-> 0, result |-> "ok"]
    /\ UNCHANGED <<store_vars, hist_vars, faiss_ties>>

(***************************************************************************)
(* The EmbedderResults offered to add(): as embed_batch builds them from a *)
(* chunk (chunk_id, document_id, metadata with chunk_index); the third     *)
(* re-uses the chunk_id of the first, as a re-indexed document does.       *)
(***************************************************************************)
UnitVector(k, c) == [i \in 1..Dim |-> IF i = k THEN c ELSE 0]

Embedding(vector, doc, chunk_index, text_length) ==
    [vector      |-> vector,
     chunk_id    |-> ChunkId(doc, chunk_index),
     document_id |-> doc,
     metadata    |-> [method |-> "Sentence-BERT", chunk_index |-> chunk_index,
                      text_length |-> text_length, dim |-> Len(vector)]]

Embeddings ==
    { Embedding(UnitVector(1, 1), <<"d1">>, 0, 3),
      Embedding(UnitVector(Dim, 2), <<"d2">>, 1, 2),
      Embedding(UnitVector(1, -1), <<"d1">>, 0, 4) }

Batches == SeqsUpTo(Embeddings, MaxBatch)

ZeroVector == [i \in 1..Dim |-> 0]
OnesVector == [i \in 1..Dim |-> 1]

SkewVector == [i \in 1..Dim |-> IF i = 1 THEN 2 ELSE 1]

\* the EmbedderResults of the searched index: a unit vector, a longer one at
\* an angle to it, a zero vector, and one opposite to the first
SearchEmbeddings ==
    { Embedding(UnitVector(1, 1), <<"d1">>, 0, 3),
      Embedding(SkewVector, <<"d2">>, 1, 2),
      Embedding(ZeroVector, <<"d3">>, 0, 1),
      Embedding(UnitVector(1, -2), <<"d1">>, 1, 4) }

SearchBatches == SeqsUpTo(SearchEmbeddings, MaxBatch)

\* query vectors: stored ones, one orthogonal to the first, the diagonal, and
\* one of another length
Queries ==
    { UnitVector(1, 1), SkewVector, ZeroVector, UnitVector(Dim, 2), OnesVector,
      [i \in 1..(Dim + 1) |-> 1] }

TopKs == 0..(MaxVectors + 1)

\* the dimensions an object is constructed with
Dimensions == {Dim, Dim + 1}

\* what is added to an index that is saved and loaded
PersistEmbeddings ==
    { Embedding(UnitVector(1, 1), <<"d1">>, 0, 3),
      Embedding(UnitVector(Dim, 2), <<"d2">>, 1, 2) }

PersistBatches == SeqsUpTo(PersistEmbeddings, MaxBatch)

\* what embedder.embed(query).vector is, in the runs of a Retriever
RetrieveQueries == { UnitVector(1, 1), OnesVector, [i \in 1..(Dim + 1) |-> 1] }

\* min_similarity of a Retriever: the default 0.3, and 0.5
DefaultMinSimilarity == ScoreOf(3, 10)
MinSimilarities == { DefaultMinSimilarity, ScoreOf(1, 2) }

(***************************************************************************)
(* Specifications                                                          *)
(***************************************************************************)
\* FAISSStorage(dimension=Dim, normalize_vectors=...), no chunker yet
Init ==
    /\ ChunkInit /\ StoreInit
    /\ normalize_vectors \in BOOLEAN
    /\ faiss_ties = "ascending"

\* the vector index
Next ==
    /\ UNCHANGED <<chunk_vars, thread_vars>>
    /\ \/ \E embeddings \in Batches : Add(embeddings)
       \/ Save
       \/ Load
       \/ Clear

Spec == Init /\ [][Next]_vars

\* the chunking engine
\* the chunking engine: one config is constructed, and when it is accepted a
\* chunker built on it is called once
InitChunk ==
    /\ ChunkInit /\ StoreInit
    /\ normalize_vectors = TRUE
    /\ faiss_ties = "ascending"

Configure ==
    /\ phase = "new"
    /\ \/ \E cs \in ChunkSizes, co \in Overlaps, mn \in MinSizes : NewConfig(cs, co, mn)
       \/ NewConfig(ExampleConfig.chunk_size, ExampleConfig.chunk_overlap,
                    ExampleConfig.min_chunk_size)

CallFixed ==
    /\ phase = "ready"
    /\ \E txt \in TextsFor(config, Texts), doc \in DocIds : ChunkFixed(txt, doc)

CallSentence ==
    /\ phase = "ready"
    /\ \E txt \in TextsFor(config, Texts), doc \in DocIds : ChunkSentence(txt, doc)

CallSemantic ==
    /\ phase = "ready"
    /\ \E txt \in TextsFor(config, ParaTexts), doc \in DocIds : ChunkSemantic(txt, doc)

NextChunk ==
    /\ UNCHANGED <<store_vars, disk_vars, last_op, hist_vars, faiss_ties, thread_vars>>
    /\ (Configure \/ CallFixed \/ CallSentence \/ CallSemantic)

SpecChunk == InitChunk /\ [][NextChunk]_vars

\* the vector index, searched
InitSearch ==
    /\ ChunkInit /\ StoreInit
    /\ normalize_vectors \in BOOLEAN
    /\ faiss_ties \in TieOrders

\* search(), get_stats() and retrieve() change nothing: a run builds the index
\* and ends with one of them
Observed == last_op.op \in {"search", "get_stats", "retrieve"}

NextSearch ==
    /\ ~Observed
    /\ UNCHANGED <<chunk_vars, thread_vars>>
    /\ \/ \E embeddings \in SearchBatches : Add(embeddings)
       \/ Clear
       \/ \E q \in Queries, k \in TopKs : Search(q, k)
       \/ GetStats

SpecSearch == InitSearch /\ [][NextSearch]_vars

\* the vector index behind a Retriever
NextRetrieve ==
    /\ ~Observed
    /\ UNCHANGED <<chunk_vars, thread_vars>>
    /\ \/ \E embeddings \in SearchBatches : Add(embeddings)
       \/ Clear
       \/ \E q \in RetrieveQueries, k \in TopKs, m \in MinSimilarities : Retrieve(q, k, m)

SpecRetrieve == InitSearch /\ [][NextRetrieve]_vars

\* the vector index and its artifacts: objects of either dimension, with or
\* without normalisation, save and load under one path
InitPersist ==
    /\ ChunkInit /\ StoreInit
    /\ normalize_vectors \in BOOLEAN
    /\ faiss_ties = "ascending"

NextPersist ==
    /\ ~Observed
    /\ UNCHANGED <<chunk_vars, thread_vars>>
    /\ \/ \E embeddings \in PersistBatches :
             Len(index) + Len(embeddings) < MaxVectors /\ Add(embeddings)
       \/ Save
       \/ Load
       \/ \E d \in Dimensions, normalize \in BOOLEAN : New(d, normalize)
       \/ \E which \in {"faiss", "pkl"} : RemoveArtifact(which)
       \/ Clear
       \/ GetStats

SpecPersist == InitPersist /\ [][NextPersist]_vars

(***************************************************************************)
(* FAISSStorage called from several threads.  The class holds no lock, so  *)
(* a thread may be suspended between two statements of a method; each      *)
(* action below is one stretch of a method that runs without suspension.   *)
(***************************************************************************)
Quiescent == \A t \in Threads : threads[t] = Idle

\* the thread moves on
Goto(t, frame) == threads' = [threads EXCEPT ![t] = frame]

\* the thread returns (or raises) and the call is over
Return(t, op, n, result) ==
    /\ threads' = [threads EXCEPT ![t] = Idle]
    /\ last_op' = [op |-> op, n |-> n, result |-> result]

\* add(), lines 92-103: the early return, else the rows are built and normalised
AddBegin(t, embeddings) ==
    /\ threads[t] = Idle
    /\ IF AddReturnsEarly(embeddings)
       THEN Return(t, "add", 0, "ok")
       ELSE IF NumpyRaises(embeddings) \/ RaggedRows(embeddings)
       THEN Return(t, "add", Len(embeddings), "ValueError")
       ELSE /\ Goto(t, [pc |-> "add_index", embeddings |-> embeddings,
                        vectors |-> [k \in 1..Len(embeddings) |->
                                       Normalize(normalize_vectors, embeddings[k].vector)]])
            /\ UNCHANGED last_op
    /\ UNCHANGED <<store_vars, disk_vars, hist_vars, faiss_ties>>

\* add(), line 106: self.index.add(vectors)
AddIndex(t) ==
    /\ threads[t].pc = "add_index"
    /\ IF WrongDimension(threads[t].embeddings[1].vector, index_d)
       THEN /\ Return(t, "add", Len(threads[t].embeddings), "AssertionError")
            /\ UNCHANGED index
       ELSE /\ index' = index \o threads[t].vectors
            /\ Goto(t, [threads[t] EXCEPT !.pc = "add_register"] @@ [i |-> 0])
            /\ UNCHANGED last_op
    /\ UNCHANGED <<index_d, metadata_store, chunk_id_to_faiss_id, next_id, dimension,
                   normalize_vectors, disk_vars, hist_vars, faiss_ties>>

\* add(), lines 109-121: one turn of the loop, self.next_id is read in each
AddRegister(t) ==
    /\ threads[t].pc = "add_register"
    /\ LET i   == threads[t].i
           emb == threads[t].embeddings[i + 1]
           faiss_id == FaissId(next_id, i)
       IN  /\ metadata_store' = DictSet(metadata_store, faiss_id, StoredChunk(emb))
           /\ chunk_id_to_faiss_id' = DictSet(chunk_id_to_faiss_id, emb.chunk_id, faiss_id)
           /\ Goto(t, [threads[t] EXCEPT
                          !.i = i + 1,
                          !.pc = IF i + 1 >= Len(threads[t].embeddings)
                                 THEN "add_count" ELSE "add_register"])
    /\ UNCHANGED <<index, index_d, next_id, dimension, normalize_vectors, disk_vars,
                   last_op, hist_vars, faiss_ties>>

\* add(), line 123: "self.next_id += len(embeddings)" reads the counter, calls
\* len(), ...
AddReadNextId(t) ==
    /\ threads[t].pc = "add_count"
    /\ Goto(t, [threads[t] EXCEPT !.pc = "add_store"] @@ [read |-> next_id])
    /\ UNCHANGED <<store_vars, disk_vars, last_op, hist_vars, faiss_ties>>

\* ... and stores the sum
AddStoreNextId(t) ==
    /\ threads[t].pc = "add_store"
    /\ next_id' = threads[t].read + Len(threads[t].embeddings)
    /\ Return(t, "add", Len(threads[t].embeddings), "ok")
    /\ UNCHANGED <<index, index_d, metadata_store, chunk_id_to_faiss_id, dimension,
                   normalize_vectors, disk_vars, hist_vars, faiss_ties>>

\* the batches of two documents, as embed_batch returns them
RaceBatches ==
    { << Embedding(UnitVector(1, 1), <<"d1">>, 0, 3), Embedding(SkewVector, <<"d1">>, 1, 2) >>,
      << Embedding(UnitVector(Dim, 2), <<"d2">>, 0, 4) >>,
      << Embedding(ZeroVector, <<"d3">>, 0, 1) >> }

\* the chunk ids a thread is adding
InFlight(t) ==
    IF "embeddings" \in DOMAIN threads[t]
    THEN {threads[t].embeddings[k].chunk_id : k \in 1..Len(threads[t].embeddings)}
    ELSE {}

\* no record of the batch was given to add() before
NotYetAdded(embeddings) ==
    \A k \in 1..Len(embeddings) :
        /\ embeddings[k].chunk_id \notin DOMAIN chunk_id_to_faiss_id
        /\ \A t \in Threads : embeddings[k].chunk_id \notin InFlight(t)

\* two threads add documents to one index, no document twice
NextAddRace ==
    /\ UNCHANGED chunk_vars
    /\ \E t \in Threads :
          \/ \E embeddings \in RaceBatches :
                NotYetAdded(embeddings) /\ AddBegin(t, embeddings)
          \/ AddIndex(t)
          \/ AddRegister(t)
          \/ AddReadNextId(t)
          \/ AddStoreNextId(t)

SpecAddRace == Init /\ [][NextAddRace]_vars

\* search(), lines 134-143: the early return, the query row, top_k clamped
SearchBegin(t, query_vector, top_k) ==
    /\ threads[t] = Idle
    /\ IF SearchReturnsEarly(index)
       THEN /\ threads' = threads
            /\ last_op' = [op |-> "search", n |-> top_k, query |-> query_vector,
                           result |-> "ok", results |-> <<>>, hits |-> <<>>]
       ELSE /\ Goto(t, [pc |-> "search_index", query_vector |-> query_vector,
                        top_k |-> top_k,
                        query |-> Normalize(normalize_vectors, query_vector),
                        k |-> ClampTopK(top_k, Len(index))])
            /\ UNCHANGED last_op
    /\ UNCHANGED <<store_vars, disk_vars, hist_vars, faiss_ties>>

\* search(), line 146: distances, indices = self.index.search(query, top_k)
SearchIndex(t) ==
    /\ threads[t].pc = "search_index"
    /\ IF FaissRejects(threads[t].query_vector, threads[t].k, index_d)
       THEN /\ threads' = [threads EXCEPT ![t] = Idle]
            /\ last_op' = [op |-> "search", n |-> threads[t].top_k,
                           query |-> threads[t].query_vector,
                           result |-> "AssertionError", results |-> <<>>, hits |-> <<>>]
       ELSE /\ Goto(t, [threads[t] EXCEPT !.pc = "search_collect"]
                       @@ [hits |-> FaissSearch(index, threads[t].query, threads[t].k,
                                                faiss_ties)])
            /\ UNCHANGED last_op
    /\ UNCHANGED <<store_vars, disk_vars, hist_vars, faiss_ties>>

\* search(), lines 149-171: the hits are resolved through self.metadata_store
SearchCollect(t) ==
    /\ threads[t].pc = "search_collect"
    /\ threads' = [threads EXCEPT ![t] = Idle]
    /\ last_op' = [op |-> "search", n |-> threads[t].top_k,
                   query |-> threads[t].query_vector, result |-> "ok",
                   results |-> CollectResults(threads[t].hits, metadata_store, 1),
                   hits |-> threads[t].hits]
    /\ UNCHANGED <<store_vars, disk_vars, hist_vars, faiss_ties>>

\* clear(), line 237: self.index = faiss.IndexFlatIP(self.dimension)
ClearIndex(t) ==
    /\ threads[t] = Idle
    /\ index' = <<>>
    /\ index_d' = dimension
    /\ Goto(t, [pc |-> "clear_maps", n |-> Len(index)])
    /\ UNCHANGED <<metadata_store, chunk_id_to_faiss_id, next_id, dimension,
                   normalize_vectors, disk_vars, last_op, hist_vars, faiss_ties>>

\* clear(), lines 238-239: both dicts are emptied
ClearMaps(t) ==
    /\ threads[t].pc = "clear_maps"
    /\ metadata_store' = EmptyDict
    /\ chunk_id_to_faiss_id' = EmptyDict
    /\ Goto(t, [threads[t] EXCEPT !.pc = "clear_counter"])
    /\ UNCHANGED <<index, index_d, next_id, dimension, normalize_vectors, disk_vars,
                   last_op, hist_vars, faiss_ties>>

\* clear(), line 240: self.next_id = 0
ClearCounter(t) ==
    /\ threads[t].pc = "clear_counter"
    /\ next_id' = ClearedNextId(next_id)
    /\ Return(t, "clear", threads[t].n, "ok")
    /\ UNCHANGED <<index, index_d, metadata_store, chunk_id_to_faiss_id, dimension,
                   normalize_vectors, disk_vars, hist_vars, faiss_ties>>

\* one thread writes (add, clear) while the other searches; a run ends when a
\* search has returned
Writer == "t1"
Reader == "t2"
RaceQueries == { UnitVector(1, 1), OnesVector }

NextReadRace ==
    /\ last_op.op # "search"
    /\ UNCHANGED chunk_vars
    /\ \/ \E embeddings \in RaceBatches :
             /\ NotYetAdded(embeddings)
             /\ Len(index) + Len(embeddings) <= MaxVectors
             /\ AddBegin(Writer, embeddings)
       \/ AddIndex(Writer)
       \/ AddRegister(Writer)
       \/ AddReadNextId(Writer)
       \/ AddStoreNextId(Writer)
       \/ ClearIndex(Writer)
       \/ ClearMaps(Writer)
       \/ ClearCounter(Writer)
       \/ \E q \in RaceQueries, k \in 1..MaxVectors : SearchBegin(Reader, q, k)
       \/ SearchIndex(Reader)
       \/ SearchCollect(Reader)

SpecReadRace == Init /\ [][NextReadRace]_vars

\* save(), lines 180-186: faiss.write_index(self.index, faiss_path)
SaveIndex(t) ==
    /\ threads[t] = Idle
    /\ disk_faiss' = [exists |-> TRUE, index |-> index, d |-> index_d]
    /\ Goto(t, [pc |-> "save_metadata"])
    /\ UNCHANGED <<store_vars, disk_pkl, last_op, hist_vars, faiss_ties>>

\* save(), lines 189-199: the metadata dict is pickled
SaveMetadata(t) ==
    /\ threads[t].pc = "save_metadata"
    /\ disk_pkl' = PickledMetadata(metadata_store, chunk_id_to_faiss_id, next_id, dimension)
    /\ saved' = [exists |-> TRUE, same_object |-> TRUE] @@ Snapshot
    /\ Return(t, "save", 0, "ok")
    /\ UNCHANGED <<store_vars, disk_faiss, faiss_ties>>

\* save() ends between its two writes: the process is stopped, or open() or
\* pickle.dump raises; the index file stays as written
SaveInterrupted(t) ==
    /\ threads[t].pc = "save_metadata"
    /\ Return(t, "save", 0, "interrupted")
    /\ UNCHANGED <<store_vars, disk_vars, hist_vars, faiss_ties>>

\* one thread adds and saves under one path, load() may come at any time
NextSaveRace ==
    /\ UNCHANGED chunk_vars
    /\ \/ /\ Quiescent
          /\ \E embeddings \in PersistBatches :
                Len(index) + Len(embeddings) <= MaxVectors /\ Add(embeddings)
          /\ UNCHANGED thread_vars
       \/ SaveIndex(Writer)
       \/ SaveMetadata(Writer)
       \/ SaveInterrupted(Writer)
       \/ Load /\ UNCHANGED thread_vars

SpecSaveRace == Init /\ [][NextSaveRace]_vars

(***************************************************************************)
(* The indexing flow: chunker.chunk -> embedder.embed_batch -> storage.add *)
(***************************************************************************)
\* model.encode(text): the model is outside the repository; the vector is a
\* function of the text alone
Encode(txt) == [i \in 1..Dim |-> IF i = 1 THEN Len(txt) ELSE 1]

\* SentenceBERTEmbedder.embed_batch(chunks): one EmbedderResult per chunk, in order
EmbedBatch(chunk_list) ==
    [k \in 1..Len(chunk_list) |->
        [vector      |-> Encode(chunk_list[k].text),
         chunk_id    |-> chunk_list[k].chunk_id,
         document_id |-> chunk_list[k].document_id,
         metadata    |-> [method      |-> "Sentence-BERT",
                          chunk_index |-> chunk_list[k].chunk_index,
                          text_length |-> Len(chunk_list[k].text),
                          dim         |-> Dim]]]

PipelineTexts == SeqsUpTo({"a", ".", " "}, MaxVectors + 1)

\* a valid config, a chunker of one of the three kinds called once, its chunks
\* embedded and added, then one search
NextPipeline ==
    /\ UNCHANGED thread_vars
    /\ \/ /\ phase = "new"
          /\ \E cs \in ChunkSizes, mn \in {0, 1} : NewConfig(cs, 0, mn)
          /\ UNCHANGED <<store_vars, disk_vars, last_op, hist_vars, faiss_ties>>
       \/ /\ phase = "ready"
          /\ \E txt \in PipelineTexts, doc \in DocIds :
                ChunkFixed(txt, doc) \/ ChunkSentence(txt, doc) \/ ChunkSemantic(txt, doc)
          /\ UNCHANGED <<store_vars, disk_vars, last_op, hist_vars, faiss_ties>>
       \/ /\ phase = "chunked" /\ last_op.op = "init"
          /\ Add(EmbedBatch(chunks))
          /\ UNCHANGED chunk_vars
       \/ /\ last_op.op = "add"
          /\ \E k \in 1..MaxVectors : Search(Encode(<<"a">>), k)
          /\ UNCHANGED chunk_vars

SpecPipeline == Init /\ [][NextPipeline]_vars

(***************************************************************************)
(* The sentence chunker on texts of many short sentences, with configs     *)
(* whose overlap has room for several of them.                             *)
(***************************************************************************)
OverlapTexts == SeqsUpTo({".", " "}, MaxOverlapLen)

NextOverlap ==
    /\ UNCHANGED <<store_vars, disk_vars, last_op, hist_vars, faiss_ties, thread_vars>>
    /\ \/ /\ phase = "new"
          /\ \E cs \in 2..MaxOverlapSize, co \in 0..MaxOverlapSize, mn \in {0, 1} :
                co < cs /\ NewConfig(cs, co, mn)
       \/ /\ phase = "ready"
          /\ \E txt \in OverlapTexts, doc \in DocIds : ChunkSentence(txt, doc)

SpecOverlap == InitChunk /\ [][NextOverlap]_vars

(***************************************************************************)
(* The paragraph chunker on texts of many short paragraphs.                *)
(***************************************************************************)
ParaOverlapTexts == SeqsUpTo({"a", "\n"}, MaxOverlapLen)

NextParaOverlap ==
    /\ UNCHANGED <<store_vars, disk_vars, last_op, hist_vars, faiss_ties, thread_vars>>
    /\ \/ /\ phase = "new"
          /\ \E cs \in 2..MaxOverlapSize, co \in 0..MaxOverlapSize, mn \in {0, 1} :
                co < cs /\ NewConfig(cs, co, mn)
       \/ /\ phase = "ready"
          /\ \E txt \in ParaOverlapTexts, doc \in DocIds : ChunkSemantic(txt, doc)

SpecParaOverlap == InitChunk /\ [][NextParaOverlap]_vars

(***************************************************************************)
(* The sentence chunker on texts that hold an abbreviation of its set.     *)
(***************************************************************************)
\* the abbreviation as it is written in a text: with a terminal after it,
\* unless its entry in the set ends with one already
Written(abbr, terminal) ==
    IF IsTerminal(abbr[Len(abbr)]) THEN abbr ELSE abbr \o <<terminal>>

\* "<before><abbreviation><terminal> <after>"
AbbrevText(before, abbr, terminal, after) ==
    before \o Written(abbr, terminal) \o <<" ">> \o after

AbbrevTexts ==
    { AbbrevText(before, abbr, terminal, after) :
        before \in {<<>>, <<"a", " ">>}, abbr \in ABBREVIATIONS,
        terminal \in {".", "?"}, after \in {<<"b">>, <<"b", ".">>} }

NextAbbrev ==
    /\ UNCHANGED <<store_vars, disk_vars, last_op, hist_vars, faiss_ties, thread_vars>>
    /\ \/ /\ phase = "new"
          /\ \E cs \in 2..MaxOverlapSize : NewConfig(cs, 0, 0)
       \/ /\ phase = "ready"
          /\ \E txt \in AbbrevTexts, doc \in DocIds : ChunkSentence(txt, doc)

SpecAbbrev == InitChunk /\ [][NextAbbrev]_vars

(***************************************************************************)
(* The paragraph chunker on texts that hold Markdown headings.             *)
(***************************************************************************)
SectionTexts == SeqsUpTo({"a", "#", " ", "\n"}, MaxParaLen)

NextSection ==
    /\ UNCHANGED <<store_vars, disk_vars, last_op, hist_vars, faiss_ties, thread_vars>>
    /\ \/ /\ phase = "new"
          /\ \E cs \in 1..(MaxSize + 1), co \in 0..MaxSize :
                co < cs /\ NewConfig(cs, co, 0)
       \/ /\ phase = "ready"
          /\ \E txt \in SectionTexts, doc \in DocIds : ChunkSemantic(txt, doc)

SpecSection == InitChunk /\ [][NextSection]_vars

(***************************************************************************)
(* Properties of the chunking engine (checked under SpecChunk)             *)
(***************************************************************************)
Chunked(strat) == phase = "chunked" /\ strategy = strat
ChunkRange == 1..Len(chunks)
HasKey(chunk, key) == key \in DOMAIN chunk.metadata

\* C1: a ChunkingConfig with chunk_overlap >= chunk_size or min_chunk_size >
\* chunk_size is rejected at construction, and every config a chunker holds
\* or runs with has chunk_overlap < chunk_size and min_chunk_size <= chunk_size.
C1_ConfigValidated ==
    /\ phase \in {"ready", "chunked"} =>
          /\ config.chunk_overlap < config.chunk_size
          /\ config.min_chunk_size <= config.chunk_size
    /\ ( /\ phase # "new"
         /\ \/ config.chunk_overlap >= config.chunk_size
            \/ config.min_chunk_size > config.chunk_size ) => phase = "rejected"

C1_Witness ==
    /\ phase = "rejected"
    /\ config.min_chunk_size > config.chunk_size
    /\ config.chunk_overlap < config.chunk_size

\* the windows of the fixed-width strategy, stated from the text and the config
C2_Stride == config.chunk_size - config.chunk_overlap
C2_WindowStarts == {x \in 0..(Len(text) - 1) : x % C2_Stride = 0}
C2_WindowEnd(x) == Min2(x + config.chunk_size, Len(text))
C2_NonBlank(x) == {i \in (x + 1)..C2_WindowEnd(x) : text[i] \notin Whitespace}
C2_TrimmedLen(x) ==
    IF C2_NonBlank(x) = {} THEN 0
    ELSE SetMax(C2_NonBlank(x)) - SetMin(C2_NonBlank(x)) + 1
C2_Emitted == {x \in C2_WindowStarts : C2_TrimmedLen(x) >= config.min_chunk_size}

\* C2: the fixed-width strategy looks at the windows starting at 0, s, 2s, ...
\* below len(text), s = chunk_size - chunk_overlap, each ending at
\* min(start + chunk_size, len(text)), and emits, in order, exactly the
\* windows whose trimmed length is >= min_chunk_size; the example of 1050
\* characters gives 3 chunks at 0, 400, 800, the last one 250 long.
C2_FixedWindows ==
    Chunked("fixed") =>
        /\ {chunks[i].start_char : i \in ChunkRange} = C2_Emitted
        /\ Len(chunks) = Cardinality(C2_Emitted)
        /\ \A i, j \in ChunkRange : i < j => chunks[i].start_char < chunks[j].start_char
        /\ \A i \in ChunkRange :
              /\ chunks[i].end_char = C2_WindowEnd(chunks[i].start_char)
              /\ Len(chunks[i].text) = C2_TrimmedLen(chunks[i].start_char)
        /\ (config = ExampleConfig /\ text = ExampleText) =>
              /\ Len(chunks) = 3
              /\ <<chunks[1].start_char, chunks[2].start_char, chunks[3].start_char>>
                    = <<0, 400, 800>>
              /\ Len(chunks[3].text) = 250

\* a window is dropped between two emitted ones, and the last is cut short
C2_Witness ==
    /\ Chunked("fixed")
    /\ Len(chunks) >= 2
    /\ C2_WindowStarts \ C2_Emitted # {}
    /\ config.chunk_overlap > 0
    /\ chunks[Len(chunks)].end_char - chunks[Len(chunks)].start_char < config.chunk_size

\* C3: the chunks of one chunk() call carry chunk_index 0, 1, 2, ... in
\* emission order, the requested document_id, and the chunk_id
\* "{document_id}_chunk_{chunk_index}", so that the chunk_ids are distinct.
C3_ChunkIndexes ==
    phase = "chunked" =>
        /\ \A i \in ChunkRange :
              /\ chunks[i].chunk_index = i - 1
              /\ chunks[i].document_id = document_id
              /\ chunks[i].chunk_id = document_id \o <<"_chunk_", ToString(i - 1)>>
        /\ \A i, j \in ChunkRange : i # j => chunks[i].chunk_id # chunks[j].chunk_id

\* a chunk closed before an oversized paragraph, then that paragraph's pieces
C3_Witness ==
    /\ Chunked("semantic")
    /\ Len(chunks) >= 3
    /\ HasKey(chunks[1], "paragraph_count")
    /\ HasKey(chunks[2], "from_long_paragraph") /\ HasKey(chunks[2], "is_long_sentence")
    /\ HasKey(chunks[3], "from_long_paragraph")

\* C4: every chunk of the sentence and paragraph strategies that is not a
\* piece of an oversized sentence or paragraph is at most chunk_size long.
C4_AtMostChunkSize ==
    (Chunked("sentence") \/ Chunked("semantic")) =>
        \A i \in ChunkRange :
            (~HasKey(chunks[i], "is_long_sentence") /\ ~HasKey(chunks[i], "from_long_paragraph"))
                => Len(chunks[i].text) <= config.chunk_size

\* C5: every emitted chunk is at least min_chunk_size long.
C5_AtLeastMinSize ==
    phase = "chunked" =>
        \A i \in ChunkRange : Len(chunks[i].text) >= config.min_chunk_size

\* C6: a text shorter than min_chunk_size gives no chunk, with every strategy.
C6_ShortTextEmpty ==
    (phase = "chunked" /\ Len(text) < config.min_chunk_size) => chunks = <<>>

C6_Witness ==
    /\ Chunked("sentence")
    /\ Len(text) < config.min_chunk_size
    /\ Len(text) >= 1
    /\ \A i \in 1..Len(text) : text[i] \notin Whitespace
    /\ chunks = <<>>

\* C7: every emitted chunk has 0 <= start_char <= end_char <= len(text).
C7_Offsets ==
    phase = "chunked" =>
        \A i \in ChunkRange :
            /\ 0 <= chunks[i].start_char
            /\ chunks[i].start_char <= chunks[i].end_char
            /\ chunks[i].end_char <= Len(text)

\* pieces of an oversized paragraph that does not start the document
C7_Witness ==
    /\ Chunked("semantic")
    /\ \E i \in ChunkRange :
          /\ HasKey(chunks[i], "from_long_paragraph")
          /\ HasKey(chunks[i], "is_long_sentence")
          /\ chunks[i].start_char > 0
          /\ chunks[i].end_char = Len(text)
          /\ i > 1

(***************************************************************************)
(* Properties of the vector index (checked under Spec)                     *)
(***************************************************************************)
StoredIds == DOMAIN metadata_store

\* the record at faiss id i came from embedding e
C8_RecordOf(store, vectors, i, e) ==
    /\ store[i].chunk_id = e.chunk_id
    /\ store[i].document_id = e.document_id
    /\ store[i].chunk_index = e.metadata.chunk_index
    /\ store[i].metadata.text_length = e.metadata.text_length
    /\ vectors[i + 1].v = e.vector

\* ids, counter and positions in one state
C8_DenseIds ==
    /\ StoredIds = 0..(Len(index) - 1)
    /\ next_id = Len(index)
    /\ \A i \in StoredIds : \E e \in Embeddings : C8_RecordOf(metadata_store, index, i, e)

\* one add() step: the new records in input order, the old ones untouched
C8_AddInOrder ==
    (last_op'.op = "add" /\ last_op'.n > 0) =>
        /\ Len(index') = Len(index) + last_op'.n
        /\ \A i \in StoredIds :
              metadata_store'[i] = metadata_store[i] /\ index'[i + 1] = index[i + 1]
        /\ \E b \in Batches :
              /\ Len(b) = last_op'.n
              /\ \A k \in 1..Len(b) :
                    C8_RecordOf(metadata_store', index', next_id + k - 1, b[k])

\* C8: the registered internal ids are exactly 0..n-1 for the n vectors of
\* the backing store, the next-id counter is n, the record registered under
\* id i is the one whose vector sits at position i; add gives the k-th record
\* of its input the id counter + k - 1 and leaves every earlier id as it was.
C8_SequentialIds == []C8_DenseIds /\ [][C8_AddInOrder]_vars

\* a batch of two added to an index that held one vector, a saved state on disk
C8_Witness ==
    /\ last_op.op = "add" /\ last_op.n = 2
    /\ Len(index) = 3
    /\ disk_faiss.exists /\ Len(disk_faiss.index) = 1
    /\ metadata_store[1].chunk_id # metadata_store[2].chunk_id

\* C9: every stored record is reached through its chunk_id: the chunk_id ->
\* internal id map sends the chunk_id of the record with id i back to i.
C9_MapsAgree ==
    /\ \A i \in StoredIds :
          /\ metadata_store[i].chunk_id \in DOMAIN chunk_id_to_faiss_id
          /\ chunk_id_to_faiss_id[metadata_store[i].chunk_id] = i
    /\ Cardinality(DOMAIN chunk_id_to_faiss_id) = Cardinality(StoredIds)

\* one add() step with an empty input
C10_EmptyAddStep ==
    (last_op'.op = "add" /\ last_op'.n = 0) =>
        /\ last_op'.result = "ok"
        /\ UNCHANGED <<store_vars, disk_vars>>

\* C10: add with an empty sequence does not fail and changes neither the
\* vector store, nor the lookup maps, nor the counter (nor the files).
C10_EmptyAddNoOp == [][C10_EmptyAddStep]_vars

C10_Witness ==
    /\ last_op.op = "add" /\ last_op.n = 0 /\ last_op.result = "ok"
    /\ Len(index) > 0

(***************************************************************************)
(* Properties of search() and of the Retriever (checked under SpecSearch   *)
(* and SpecRetrieve)                                                       *)
(***************************************************************************)
\* one search() step on an index without vectors
C11_EmptySearchStep ==
    (last_op'.op = "search" /\ Len(index) = 0) =>
        /\ last_op'.result = "ok"
        /\ last_op'.results = <<>>
        /\ UNCHANGED <<store_vars, disk_vars>>

\* C11: search on an index holding zero records returns an empty sequence and
\* raises no error, for every query vector and every top_k, and leaves the
\* index as it was.
C11_EmptySearch == [][C11_EmptySearchStep]_vars

\* top_k = 0 and a query of another length, on an empty index
C11_Witness ==
    /\ last_op.op = "search" /\ last_op.result = "ok"
    /\ Len(index) = 0
    /\ last_op.n = 0
    /\ Len(last_op.query) # index_d

\* the last operation was a search with a query as long as the stored vectors
Searched == last_op.op = "search" /\ Len(last_op.query) = index_d

\* the inner product of the normalised query of the last search with the
\* vector stored under label i
QueryDist(i) ==
    LET q  == last_op.query
        n2 == IF SquaredNorm(q) = 0 THEN 1 ELSE SquaredNorm(q)
    IN  Real(Dot(q, index[i + 1].v), n2 * index[i + 1].n2)

\* a stored label holding the record of a result (the records of this model
\* determine their vectors)
LabelOf(r) == CHOOSE i \in StoredIds : metadata_store[i] = r.chunk

CopiesStored(rec) == Cardinality({i \in StoredIds : metadata_store[i] = rec})
CopiesFound(results, rec) == Cardinality({j \in 1..Len(results) : results[j].chunk = rec})

\* the results are stored records, none better was left out, best first
C12_TopRanked(results) ==
    /\ \A j \in 1..Len(results) :
          /\ \E i \in StoredIds : metadata_store[i] = results[j].chunk
          /\ CopiesFound(results, results[j].chunk) <= CopiesStored(results[j].chunk)
          /\ \A i \in StoredIds :
                RealGT(QueryDist(i), QueryDist(LabelOf(results[j])))
                    => CopiesFound(results, metadata_store[i]) = CopiesStored(metadata_store[i])
    /\ \A j \in 1..(Len(results) - 1) :
          /\ RealGE(QueryDist(LabelOf(results[j])), QueryDist(LabelOf(results[j + 1])))
          /\ ScoreGE(results[j].score, results[j + 1].score)

\* C12 as stated: on an index with n >= 1 records, search(query_vector, top_k)
\* returns exactly min(top_k, n) results, the stored records of highest inner
\* product against the normalised query, in non-increasing score order.
C12_AsStated ==
    (Searched /\ Len(index) >= 1) =>
        /\ last_op.result = "ok"
        /\ Len(last_op.results) = Min2(last_op.n, Len(index))
        /\ C12_TopRanked(last_op.results)

\* C12, amended: the same for top_k >= 1 (faiss refuses k = 0).
C12_TopK ==
    (Searched /\ Len(index) >= 1 /\ last_op.n >= 1) =>
        /\ last_op.result = "ok"
        /\ Len(last_op.results) = Min2(last_op.n, Len(index))
        /\ C12_TopRanked(last_op.results)

\* two of three records returned, of different scores, one left out
C12_Witness ==
    /\ Searched /\ last_op.result = "ok"
    /\ Len(index) = 3 /\ last_op.n = 2
    /\ Len(last_op.results) = 2
    /\ ScoreGT(last_op.results[1].score, last_op.results[2].score)
    /\ \E i \in StoredIds : RealGT(QueryDist(LabelOf(last_op.results[2])), QueryDist(i))

NormOrOne(v) == IF SquaredNorm(v) = 0 THEN 1 ELSE SquaredNorm(v)

\* the inner product of the normalised query of the last search with the
\* normalised vector stored under label i
Cosine(i) ==
    Real(Dot(last_op.query, index[i + 1].v),
         NormOrOne(last_op.query) * NormOrOne(index[i + 1].v))

\* the inner product of the query as given with the vector as stored
RawProduct(i) == Real(Dot(last_op.query, index[i + 1].v), index[i + 1].n2)

\* every stored vector has length one (or is the zero vector)
StoredNormalised ==
    \A k \in 1..Len(index) : index[k].n2 = NormOrOne(index[k].v)

InUnitRange(score) == ScoreGE(score, ScoreOf(0, 1)) /\ ScoreGE(ScoreOf(1, 1), score)

\* the score is (d + 1) / 2
IsHalfOnePlus(score, d) == RealEQ(score.d, d)

\* the score is (d + 1) / 2 cut to [0, 1]
IsHalfOnePlusCut(score, d) ==
    IF RealGT(d, Real(1, 1)) THEN RealEQ(score.d, Real(1, 1))
    ELSE IF RealGT(Real(-1, 1), d) THEN RealEQ(score.d, Real(-1, 1))
    ELSE RealEQ(score.d, d)

\* C13 as stated: every SearchResult has 0 <= score <= 1, where score is
\* (d + 1) / 2 and d the inner product of the normalised query with the stored
\* normalised vector, in every reachable state and for every query.
C13_AsStated ==
    (Searched /\ last_op.result = "ok") =>
        \A j \in 1..Len(last_op.results) :
            /\ InUnitRange(last_op.results[j].score)
            /\ IsHalfOnePlus(last_op.results[j].score, Cosine(LabelOf(last_op.results[j])))

\* C13, amended: every SearchResult has 0 <= score <= 1; the score is
\* (d + 1) / 2 for that d when the index normalises and its vectors were
\* stored normalised; an index that does not normalise gives (p + 1) / 2 cut
\* to [0, 1], p the inner product of the query and the vector as they are.
C13_ScoreRange ==
    (Searched /\ last_op.result = "ok") =>
        \A j \in 1..Len(last_op.results) :
            LET r == last_op.results[j]
            IN  /\ InUnitRange(r.score)
                /\ (normalize_vectors /\ StoredNormalised)
                      => IsHalfOnePlus(r.score, Cosine(LabelOf(r)))
                /\ ~normalize_vectors
                      => IsHalfOnePlusCut(r.score, RawProduct(LabelOf(r)))

\* a normalising index, a score between 1/2 and 1 and one between 0 and 1/2
C13_Witness ==
    /\ Searched /\ last_op.result = "ok"
    /\ normalize_vectors
    /\ \E j \in 1..Len(last_op.results) :
          /\ ScoreGT(last_op.results[j].score, ScoreOf(1, 2))
          /\ ScoreGT(ScoreOf(1, 1), last_op.results[j].score)
    /\ \E j \in 1..Len(last_op.results) :
          /\ ScoreGT(ScoreOf(1, 2), last_op.results[j].score)
          /\ ScoreGT(last_op.results[j].score, ScoreOf(0, 1))

\* two vectors point the same way: they are stored as one vector when normalised
SameDirection(u, v) ==
    /\ Dot(u, v) > 0
    /\ Dot(u, v) * Dot(u, v) = SquaredNorm(u) * SquaredNorm(v)

\* the record of label i heads the results with score 1.0
C14_HeadsResults(i) ==
    /\ last_op.result = "ok"
    /\ Len(last_op.results) >= 1
    /\ last_op.results[1].chunk = metadata_store[i]
    /\ RealEQ(last_op.results[1].score.d, ScoreOf(1, 1).d)

\* C14 as stated: a query with a vector that was added returns that vector's
\* record at rank 0 with score 1.0, whenever no other stored vector is a
\* duplicate of it.
C14_AsStated ==
    (Searched /\ last_op.n >= 1) =>
        \A i \in StoredIds :
            ( /\ index[i + 1].v = last_op.query
              /\ \A k \in StoredIds \ {i} : index[k + 1].v # last_op.query )
            => C14_HeadsResults(i)

\* C14, amended: the same for a vector that is not the zero vector, added to
\* and searched in an index that normalises, when no other stored vector
\* points the same way.
C14_SelfMatch ==
    (Searched /\ last_op.n >= 1 /\ normalize_vectors /\ SquaredNorm(last_op.query) > 0) =>
        \A i \in StoredIds :
            ( /\ index[i + 1].v = last_op.query
              /\ \A k \in StoredIds \ {i} : ~SameDirection(index[k + 1].v, last_op.query) )
            => C14_HeadsResults(i)

\* the query is the second of three stored vectors, and is longer than 1
C14_Witness ==
    /\ Searched /\ last_op.n >= 1 /\ normalize_vectors
    /\ Len(index) = 3
    /\ index[2].v = last_op.query
    /\ SquaredNorm(last_op.query) > 1
    /\ \A k \in {0, 2} : ~SameDirection(index[k + 1].v, last_op.query)
    /\ C14_HeadsResults(1)

\* no record is stored twice: a result names its label
DistinctRecords ==
    \A a, b \in StoredIds : a # b => metadata_store[a] # metadata_store[b]

\* C15: records of equal score are listed in ascending internal-id (insertion)
\* order.
C15_TiesAscending ==
    (Searched /\ last_op.result = "ok" /\ DistinctRecords) =>
        \A j, l \in 1..Len(last_op.results) :
            ( /\ j < l
              /\ RealEQ(last_op.results[j].score.d, last_op.results[l].score.d) )
            => LabelOf(last_op.results[j]) < LabelOf(last_op.results[l])

(***************************************************************************)
(* Properties of save(), load() and clear() (checked under SpecPersist)    *)
(***************************************************************************)
\* the last operation loaded, into another object, what an object had saved
LoadedElsewhere ==
    /\ last_op.op = "load" /\ last_op.result = "ok"
    /\ saved.exists /\ ~saved.same_object

\* two outcomes of search() agree: as many results, the same chunk ids in the
\* same order, the same scores
SameResults(a, b) ==
    /\ a.result = b.result
    /\ Len(a.results) = Len(b.results)
    /\ \A j \in 1..Len(a.results) :
          /\ a.results[j].chunk_id = b.results[j].chunk_id
          /\ RealEQ(a.results[j].score.d, b.results[j].score.d)

\* this object answers every search and get_stats() as the saving object did
AnswersAsSaved ==
    /\ \A q \in Queries, k \in TopKs :
          SameResults(SearchOutcome(Snapshot, q, k, faiss_ties),
                      SearchOutcome(saved, q, k, faiss_ties))
    /\ StatsOf(Snapshot) = StatsOf(saved)

\* C16 as stated: save(path) followed by load(path) into a fresh index of the
\* same configured dimension gives an index whose every search returns the
\* same results as the original's, and whose get_stats() is the original's.
C16_AsStated ==
    (LoadedElsewhere /\ dimension = saved.dimension) => AnswersAsSaved

\* C16, amended: the same when the fresh index also has the normalize_vectors
\* setting of the original.
C16_RoundTrip ==
    (LoadedElsewhere /\ dimension = saved.dimension
                     /\ normalize_vectors = saved.normalize_vectors) => AnswersAsSaved

\* two records of different chunk ids, saved by a normalising index and loaded
\* by another
C16_Witness ==
    /\ LoadedElsewhere
    /\ dimension = saved.dimension
    /\ normalize_vectors /\ saved.normalize_vectors
    /\ Len(index) = 2
    /\ metadata_store[0].chunk_id # metadata_store[1].chunk_id
    /\ Len(SearchOutcome(Snapshot, OnesVector, 2, faiss_ties).results) = 2

\* one load() step with an artifact missing
C17_LoadStep ==
    (last_op'.op = "load" /\ (~disk_faiss.exists \/ ~disk_pkl.exists)) =>
        /\ last_op'.result = "FileNotFoundError"
        /\ UNCHANGED store_vars

\* C17: load fails with a not-found error when either artifact is missing,
\* also when exactly one of the two exists, and then leaves the vector store,
\* both lookup maps and the next-id counter as they were.
C17_LoadNotFound == [][C17_LoadStep]_vars

\* only the vector artifact is there, with other vectors than the index holds
C17_Witness ==
    /\ last_op.op = "load" /\ last_op.result = "FileNotFoundError"
    /\ disk_faiss.exists /\ ~disk_pkl.exists
    /\ Len(index) > 0
    /\ disk_faiss.index # index

\* C18: a load() of an index saved with another dimension completes, the
\* object then holds the loaded vectors, maps and counter, and the dimension
\* it reports (get_stats) is the dimension of the loaded vectors.
C18_LoadedDimension ==
    (last_op.op = "load" /\ disk_faiss.exists /\ disk_pkl.exists) =>
        /\ last_op.result = "ok"
        /\ index = disk_faiss.index
        /\ metadata_store = disk_pkl.metadata_store
        /\ chunk_id_to_faiss_id = disk_pkl.chunk_id_to_faiss_id
        /\ next_id = disk_pkl.next_id
        /\ StatsOf(Snapshot).dimension = disk_faiss.d

\* one clear() step: nothing is left, get_stats() and search() would say so
C19_ClearStep ==
    last_op'.op = "clear" =>
        /\ index' = <<>> /\ metadata_store' = EmptyDict /\ chunk_id_to_faiss_id' = EmptyDict
        /\ next_id' = 0
        /\ StatsOf(Snapshot').total_vectors = 0
        /\ StatsOf(Snapshot').metadata_count = 0
        /\ \A q \in Queries, k \in TopKs :
              SearchOutcome(Snapshot', q, k, faiss_ties) = [result |-> "ok", results |-> <<>>]

\* the step that follows a clear()
C19_AfterClearStep ==
    last_op.op = "clear" =>
        /\ last_op'.op = "get_stats" =>
              last_op'.stats.total_vectors = 0 /\ last_op'.stats.metadata_count = 0
        /\ last_op'.op = "search" =>
              last_op'.result = "ok" /\ last_op'.results = <<>>
        /\ (last_op'.op = "add" /\ last_op'.result = "ok" /\ last_op'.n > 0) =>
              /\ 0 \in DOMAIN metadata_store'
              /\ \E b \in SearchBatches :
                    /\ Len(b) = last_op'.n
                    /\ \A k \in 1..Len(b) : C8_RecordOf(metadata_store', index', k - 1, b[k])

\* C19: clear() discards all vectors and both maps and resets the counter:
\* get_stats() right after it reports total_vectors = 0 and metadata_count = 0,
\* search returns an empty sequence, and the first record of the next add gets
\* internal id 0.
C19_ClearResets == [][C19_ClearStep /\ C19_AfterClearStep]_vars

\* clear() has discarded two vectors or more
C19_Witness ==
    /\ last_op.op = "clear" /\ last_op.n >= 2
    /\ next_id = 0 /\ Len(index) = 0

\* what index.search(embed(query).vector, top_k) returns for the last retrieve()
Found == SearchOutcome(Snapshot, last_op.query, last_op.n, faiss_ties)

\* the positions of the search results whose score is at least the floor
KeptPositions(results, floor) ==
    {j \in 1..Len(results) : RealGE(results[j].score.d, floor.d)}

\* the a-th of them
KeptPosition(kept, a) ==
    CHOOSE j \in kept : Cardinality({i \in kept : i < j}) = a - 1

\* the outcome of a retrieve()
C20_Filtered ==
    last_op.op = "retrieve" =>
        LET found == Found
            kept  == KeptPositions(found.results, last_op.min_similarity)
        IN  /\ last_op.result = found.result
            /\ Len(last_op.results) = Cardinality(kept)
            /\ \A a \in 1..Len(last_op.results) :
                  last_op.results[a] = found.results[KeptPosition(kept, a)]
            /\ Len(last_op.results) <= Max2(last_op.n, 0)
            /\ Len(index) = 0 => last_op.result = "ok" /\ last_op.results = <<>>
            /\ (found.result = "ok" /\ kept = {})
                  => last_op.result = "ok" /\ last_op.results = <<>>

\* one retrieve() step
C20_RetrieveStep ==
    last_op'.op = "retrieve" => UNCHANGED <<store_vars, disk_vars>>

\* C20: retrieve(query, top_k) returns, in unchanged order, exactly the results
\* of index.search(embed(query).vector, top_k) whose score >= min_similarity (a
\* score equal to the floor is kept); it returns an empty sequence without
\* failing when nothing passes or the index is empty, never more than top_k
\* results, and it does not modify the index.
C20_RetrieveFilters == []C20_Filtered /\ [][C20_RetrieveStep]_vars

\* three results found: one above the floor, one equal to it, one below
C20_Witness ==
    /\ last_op.op = "retrieve" /\ last_op.result = "ok"
    /\ Len(Found.results) = 3
    /\ Len(last_op.results) = 2
    /\ ScoreGT(last_op.results[1].score, last_op.min_similarity)
    /\ RealEQ(last_op.results[2].score.d, last_op.min_similarity.d)

(***************************************************************************)
(* Properties of the index under concurrent calls                          *)
(***************************************************************************)
\* the EmbedderResult with this chunk_id, among those given to add()
AddedAs(chunk_id) ==
    CHOOSE emb \in UNION {{b[k] : k \in 1..Len(b)} : b \in RaceBatches} :
        emb.chunk_id = chunk_id

\* each registered chunk sits at the position of its own vector
OwnVectors ==
    \A id \in DOMAIN metadata_store :
        /\ id + 1 \in 1..Len(index)
        /\ index[id + 1] = Normalize(normalize_vectors, AddedAs(metadata_store[id].chunk_id).vector)
        /\ chunk_id_to_faiss_id[metadata_store[id].chunk_id] = id

\* C21: whatever the interleaving of two add() calls from different threads,
\* once both have returned every added record has its own internal id, that id
\* is the position of its vector, no metadata entry was overwritten, and
\* next_id == total_vectors == metadata_count.
C21_AddsSerialized ==
    Quiescent =>
        /\ Cardinality(DOMAIN metadata_store) = Len(index)
        /\ Cardinality(DOMAIN chunk_id_to_faiss_id) = Len(index)
        /\ OwnVectors
        /\ next_id = Len(index)

\* the hits of the last search that name a vector
FoundLabels == {j \in 1..Len(last_op.hits) : last_op.hits[j][2] # -1}

\* C22: a search never overlaps an add or a clear in flight, so each hit that
\* the vector store returns resolves to a registered chunk: none is dropped
\* for missing metadata, in any interleaving.
C22_NoHitDropped ==
    (last_op.op = "search" /\ last_op.result = "ok")
        => Len(last_op.results) = Cardinality(FoundLabels)

\* C30: save writes the two artifacts as one pair: also when a save is
\* interrupted between its two writes or overlaps a load, a load that succeeds
\* never joins the vectors of one save with the metadata of another, so after
\* it total_vectors == metadata_count == next_id.
C30_LoadedPair ==
    (last_op.op = "load" /\ last_op.result = "ok")
        => /\ Len(index) = Cardinality(DOMAIN metadata_store)
           /\ Len(index) = next_id

(***************************************************************************)
(* Properties of the indexing flow (checked under SpecPipeline)            *)
(***************************************************************************)
\* the chunk that the chunker produced under this chunk_id
ProducedAs(chunk_id) == CHOOSE k \in 1..Len(chunks) : chunks[k].chunk_id = chunk_id

\* C23: each SearchResult returned for a record that went chunks ->
\* embed_batch -> add carries the chunk that was indexed: chunk_id,
\* document_id, chunk_index, text, start_char and end_char are those of the
\* chunk the chunker produced.
C23_ResultCarriesChunk ==
    (last_op.op = "search" /\ last_op.result = "ok") =>
        \A j \in 1..Len(last_op.results) :
            LET found == last_op.results[j].chunk
                made  == chunks[ProducedAs(found.chunk_id)]
            IN  /\ \E k \in 1..Len(chunks) : chunks[k].chunk_id = found.chunk_id
                /\ found.document_id = made.document_id
                /\ found.chunk_index = made.chunk_index
                /\ found.text = made.text
                /\ found.start_char = made.start_char
                /\ found.end_char = made.end_char

(***************************************************************************)
(* Properties of the sentence overlap (checked under SpecOverlap)          *)
(***************************************************************************)
\* the sentences of the text, as (sentence, start_pos, end_pos)
Sents == SplitIntoSentences(text)

\* the position in Sents of the sentence that ends at offset e, 0 if none
SentEndingAt(sents, e) ==
    IF \E j \in 1..Len(sents) : sents[j][3] = e
    THEN CHOOSE j \in 1..Len(sents) : sents[j][3] = e
    ELSE 0

\* chunk k was closed because the next sentence did not fit: it is a chunk of
\* whole sentences, and a sentence of at most chunk_size follows it
ClosedOnOverflow(sents, k) ==
    /\ k < Len(chunks)
    /\ "sentence_count" \in DOMAIN chunks[k].metadata
    /\ LET last == SentEndingAt(sents, chunks[k].end_char)
       IN  /\ last >= 1 /\ last < Len(sents)
           /\ Len(sents[last + 1][1]) <= config.chunk_size

\* total length of the m sentences that end with sentence last
RECURSIVE TailLength(_, _, _)
TailLength(sents, last, m) ==
    IF m = 0 THEN 0 ELSE Len(sents[last][1]) + TailLength(sents, last - 1, m - 1)

\* how many trailing sentences of chunk k fit into chunk_overlap, of at most limit
FittingTail(sents, k, limit) ==
    LET last == SentEndingAt(sents, chunks[k].end_char)
    IN  SetMax({m \in 0..Min2(limit, chunks[k].metadata.sentence_count) :
                   m = 0 \/ TailLength(sents, last, m) <= config.chunk_overlap})

\* how many sentences of chunk k the next chunk starts with
Carried(sents, k) ==
    LET last == SentEndingAt(sents, chunks[k].end_char)
    IN  Cardinality({j \in 1..last : sents[j][2] >= chunks[k + 1].start_char})

\* the next chunk starts with the m last sentences of chunk k, whole and in order
SeededWith(sents, k, m) ==
    LET last   == SentEndingAt(sents, chunks[k].end_char)
        seed   == [j \in 1..m |-> sents[last - m + j][1]]
        joined == Join(<<" ">>, seed)
    IN  /\ Carried(sents, k) = m
        /\ m > 0 => /\ chunks[k + 1].start_char = sents[last - m + 1][2]
                    /\ PySlice(chunks[k + 1].text, 0, Len(joined)) = joined

\* C24 as stated: the seed is the longest suffix of the closed chunk's
\* sentences whose total length is <= chunk_overlap, however many sentences
\* that is.
C24_AsStated ==
    Chunked("sentence") =>
        LET sents == Sents
        IN  \A k \in ChunkRange :
                ClosedOnOverflow(sents, k)
                    => SeededWith(sents, k,
                                  FittingTail(sents, k, chunks[k].metadata.sentence_count))

\* C24 (amended): when the sentence chunker closes a chunk because the next
\* sentence would exceed chunk_size, the next chunk is seeded with the longest
\* suffix of the closed chunk's last three sentences whose total length is
\* <= chunk_overlap, taken whole and in original order.
C24_LastThree ==
    Chunked("sentence") =>
        LET sents == Sents
        IN  \A k \in ChunkRange :
                ClosedOnOverflow(sents, k) => SeededWith(sents, k, FittingTail(sents, k, 3))

\* a chunk of five sentences is closed, four would fit, three are carried over
C24_Witness ==
    /\ Chunked("sentence")
    /\ \E k \in ChunkRange :
          /\ ClosedOnOverflow(Sents, k)
          /\ FittingTail(Sents, k, chunks[k].metadata.sentence_count) = 4
          /\ Carried(Sents, k) = 3

(***************************************************************************)
(* Properties of the paragraph overlap (checked under SpecParaOverlap)     *)
(***************************************************************************)
\* the paragraphs of the text, as (para_text, start, end)
Paras == SplitIntoParagraphs(text)

\* the position in paras of the paragraph that starts at offset b, 0 if none
ParaStartingAt(paras, b) ==
    IF \E j \in 1..Len(paras) : paras[j][2] = b
    THEN CHOOSE j \in 1..Len(paras) : paras[j][2] = b
    ELSE 0

\* chunk k was closed because the next paragraph did not fit: it is a chunk of
\* whole paragraphs, and a paragraph of at most chunk_size starts where it ends
ParaClosedOnOverflow(paras, k) ==
    /\ k < Len(chunks)
    /\ "paragraph_count" \in DOMAIN chunks[k].metadata
    /\ LET next == ParaStartingAt(paras, chunks[k].end_char)
       IN  /\ next >= 2
           /\ Len(paras[next][1]) <= config.chunk_size

\* how many paragraphs of the closed chunk k the next chunk holds
ParasCarried(paras, k) ==
    LET next == ParaStartingAt(paras, chunks[k].end_char)
    IN  Cardinality({j \in 1..(next - 1) : paras[j][2] >= chunks[k + 1].start_char})

\* the text of chunk k + 1 starts with these paragraphs
StartsWithParas(k, seq) ==
    LET joined == Join(<<"\n", "\n">>, seq)
    IN  PySlice(chunks[k + 1].text, 0, Len(joined)) = joined

\* C26: when the paragraph chunker closes a chunk because the next paragraph
\* would exceed chunk_size, the next chunk is seeded with exactly the last
\* paragraph of the closed chunk if its length is <= chunk_overlap and
\* chunk_overlap > 0, with nothing otherwise; never with two paragraphs or
\* more; the seeded chunk's start_char is the start of the carried paragraph.
C26_SingleParagraph ==
    Chunked("semantic") =>
        LET paras == Paras
        IN  \A k \in ChunkRange :
                ParaClosedOnOverflow(paras, k) =>
                    LET next == ParaStartingAt(paras, chunks[k].end_char)
                        last == paras[next - 1]
                    IN  IF config.chunk_overlap > 0 /\ Len(last[1]) <= config.chunk_overlap
                        THEN /\ ParasCarried(paras, k) = 1
                             /\ chunks[k + 1].start_char = last[2]
                             /\ StartsWithParas(k, <<last[1], paras[next][1]>>)
                        ELSE /\ ParasCarried(paras, k) = 0
                             /\ chunks[k + 1].start_char = paras[next][2]
                             /\ StartsWithParas(k, <<paras[next][1]>>)

\* a chunk of three paragraphs is closed, its last two would fit into
\* chunk_overlap together, and one is carried over
C26_Witness ==
    /\ Chunked("semantic")
    /\ \E k \in ChunkRange :
          /\ ParaClosedOnOverflow(Paras, k)
          /\ chunks[k].metadata.paragraph_count >= 3
          /\ LET next == ParaStartingAt(Paras, chunks[k].end_char)
             IN  Len(Paras[next - 1][1]) + Len(Paras[next - 2][1]) <= config.chunk_overlap
          /\ ParasCarried(Paras, k) = 1

(***************************************************************************)
(* The overlap budget (checked under SpecOverlap)                          *)
(***************************************************************************)
\* the sentences of chunk k that chunk k + 1 starts with, as they stand in
\* its text
CarriedSentenceText(sents, k) ==
    LET last == SentEndingAt(sents, chunks[k].end_char)
        c    == Carried(sents, k)
    IN  Join(<<" ">>, [j \in 1..c |-> sents[last - c + j][1]])

\* the paragraphs of chunk k that chunk k + 1 starts with, as they stand in
\* its text
CarriedParagraphText(paras, k) ==
    LET next == ParaStartingAt(paras, chunks[k].end_char)
        c    == ParasCarried(paras, k)
    IN  Join(<<"\n", "\n">>, [j \in 1..c |-> paras[next - c - 1 + j][1]])

\* C25: in the sentence and the paragraph strategy, what a chunk shares with
\* the chunk emitted right before it (the carried sentences or paragraph, as
\* they stand in the chunk text) is at most chunk_overlap long.
C25_OverlapWithinBudget ==
    /\ Chunked("sentence") =>
          LET sents == Sents
          IN  \A k \in ChunkRange :
                  ClosedOnOverflow(sents, k)
                      => Len(CarriedSentenceText(sents, k)) <= Max2(config.chunk_overlap, 0)
    /\ Chunked("semantic") =>
          LET paras == Paras
          IN  \A k \in ChunkRange :
                  ParaClosedOnOverflow(paras, k)
                      => Len(CarriedParagraphText(paras, k)) <= Max2(config.chunk_overlap, 0)

(***************************************************************************)
(* Properties of the sentence splitter (checked under SpecAbbrev)          *)
(***************************************************************************)
\* C27: terminal punctuation that directly follows (or closes) an abbreviation
\* of the splitter's set is no sentence boundary: in "<abbreviation>. b" the
\* sentence goes on after the abbreviation, for every abbreviation of the set.
C27_AbbreviationsKept ==
    Chunked("sentence") =>
        \A before \in {<<>>, <<"a", " ">>}, abbr \in ABBREVIATIONS,
           terminal \in {".", "?"}, after \in {<<"b">>, <<"b", ".">>} :
            text = AbbrevText(before, abbr, terminal, after)
                => \A j \in 1..Len(Sents) :
                       Sents[j][3] # Len(before) + Len(Written(abbr, terminal)) + 1

(***************************************************************************)
(* Properties of the section tag (checked under SpecSection)               *)
(***************************************************************************)
\* the paragraph is a heading: it yields a section title
IsHeading(para) ==
    ExtractSectionTitle(para) # None /\ ExtractSectionTitle(para) # <<>>

\* the paragraphs of paras that start before offset e: those up to and
\* including the last paragraph of a chunk that ends at e
ParasBefore(paras, e) == {j \in 1..Len(paras) : paras[j][2] < e}

\* the title of the most recent heading among the paragraphs js, None if none
RecentSection(paras, js) ==
    LET hs == {j \in js : IsHeading(paras[j][1])}
    IN  IF hs = {} THEN None ELSE ExtractSectionTitle(paras[SetMax(hs)][1])

\* C28: the section tag of every chunk of the paragraph strategy is the title
\* of the most recent heading among the paragraphs up to and including the
\* chunk's last paragraph, None if there is none.
C28_SectionOfChunk ==
    Chunked("semantic") =>
        LET paras == Paras
        IN  \A k \in ChunkRange :
                chunks[k].metadata.section
                    = RecentSection(paras, ParasBefore(paras, chunks[k].end_char))

(***************************************************************************)
(* Properties of the chunk metadata (checked under SpecChunk)              *)
(***************************************************************************)
\* C29: for every chunk of every strategy the metadata entries chunk_index,
\* start_char and end_char equal the chunk's own fields, also for the chunks
\* of an oversized paragraph that the paragraph strategy took over from the
\* sentence strategy.
C29_MetadataAgrees ==
    phase = "chunked" =>
        \A k \in ChunkRange :
            /\ chunks[k].metadata.chunk_index = chunks[k].chunk_index
            /\ chunks[k].metadata.start_char = chunks[k].start_char
            /\ chunks[k].metadata.end_char = chunks[k].end_char

====
